---- MODULE Spec2Model ----
(***************************************************************************)
(* Card composition and delivery of the Teams notification bot.            *)
(*                                                                         *)
(* Documents are trees of nodes (Adaptive Card elements).  A string is a   *)
(* sequence of atoms: the atoms are the literals the code searches for or  *)
(* rewrites ("details", "tasks[", "]", "{{", "}}", the decimal digits) and *)
(* opaque text atoms that contain none of them, so that substring search   *)
(* and str.replace on atoms agree with the same operations on characters.  *)
(* An optional value (a Python value that may be None) is a sequence of    *)
(* length 0 (None) or 1.                                                   *)
(***************************************************************************)
EXTENDS Integers, Sequences, FiniteSets, TLC

VARIABLES
    pc,                 \* position of the operation being run
    full_template,      \* tasks_assigned: the full template (fragment source, optional)
    extracted,          \* tasks_assigned: result of extract_task_section_template
    task_template,      \* tasks_assigned: fragment given to generate_task_sections
    tasks,              \* the task records of the call
    table_sections,     \* tasks_assigned: result of generate_task_sections
    base_template,      \* tasks_assigned: the base template (header and footer, optional)
    dynamic_card,       \* tasks_assigned: result of build_dynamic_card_with_tasks (optional)
    deadline_template,  \* upcoming_deadline: the loaded template (optional)
    card,               \* upcoming_deadline: the card returned (optional)
    visible,            \* ids of the details containers the renderer shows
    lastActivated,      \* the region of the card activated last
    service,            \* delivery: "message" or "deadline" (which service runs)
    email,              \* delivery: the recipient address
    card_data,          \* delivery: caller-provided card data present (message service)
    progress_items,     \* delivery: what query_progress_items returned (deadline service)
    CONVERSATION_REFERENCE, \* bots.teams_conversation_bot: a stored reference exists
    adaptive_card,      \* delivery: the card built for sending (optional)
    bot_error,          \* delivery: the exception of the Bot Framework attempt (optional)
    graph_error,        \* delivery: the exception of the Graph attempt (optional)
    chat_id,            \* delivery: result of get_or_create_chat_with_user (optional)
    sends,              \* the channel sends that reached the recipient, in order
    response,           \* delivery: the json_response returned (optional)
    activity_id,        \* update: the explicit activity id (optional)
    conversation_reference, \* update: the serialized reference passed in (optional)
    STORED_REFERENCE,   \* update: the stored reference (optional)
    tried,              \* update: logic's list of ids already attempted
    attempt_log,        \* update: every update_activity call made, with its outcome
    last_err,           \* update: logic's last_err (optional)
    update_result,      \* update: what update_card_via_bot_framework returned or raised (optional)
    updated_card,       \* update_card_service: load_updated_tasks_card found the card
    template_arg,       \* populate_placeholders: the template argument, as it is in memory
    populated_card,     \* populate_placeholders: what the call returned or raised (optional)
    task_type_arg,      \* get_icon_for_task_type: the argument (optional label)
    icon_names,         \* get_icon_for_task_type: what each copy returned (optional)
    task_arg,           \* _is_task_completed: the argument
    is_completed,       \* _is_task_completed: what each copy returned (optional)
    grouped_items,      \* scheduler: workflow_data["grouped_items"] in iteration order
    next_group,         \* scheduler: position of the for loop in grouped_items
    notification_results, \* scheduler: the list of per-user records
    user_email,         \* scheduler: the local user_email (empty while unbound)
    group_progress_items, \* scheduler: the local progress_items, by its length (empty while unbound)
    run_outcome         \* scheduler: how the run ended (optional)

cardVars == <<full_template, extracted, task_template, table_sections, base_template, dynamic_card>>
deadlineVars == <<deadline_template, card, visible, lastActivated>>
deliveryVars == <<service, email, card_data, progress_items, CONVERSATION_REFERENCE,
                  adaptive_card, bot_error, graph_error, chat_id, sends, response>>
updateVars == <<activity_id, conversation_reference, STORED_REFERENCE, tried, attempt_log,
                last_err, update_result>>
schedulerVars == <<grouped_items, next_group, notification_results, user_email,
                   group_progress_items, run_outcome>>
utilVars == <<updated_card, template_arg, populated_card, task_type_arg, icon_names, task_arg, is_completed,
              schedulerVars>>
channelVars == <<deliveryVars, updateVars, utilVars>>
vars == <<pc, tasks, cardVars, deadlineVars, channelVars>>

----------------------------------------------------------------------------
(* Bounds *)

MaxSiblings == 3        \* longest sibling list of an enumerated template
MaxTasks == 3           \* most task records in one call
ManyTasks == 11         \* a call with two-digit indexes
MaxGroups == 2          \* most groups of one scheduler run

----------------------------------------------------------------------------
(* Optional values and strings *)

None == <<>>
Some(x) == <<x>>

Digit(d) == <<"0", "1", "2", "3", "4", "5", "6", "7", "8", "9">>[d + 1]

\* str(n) for a natural number, as f"{i}" renders it
RECURSIVE Dec(_)
Dec(n) == IF n < 10 THEN <<Digit(n)>> ELSE Dec(n \div 10) \o <<Digit(n % 10)>>

\* needle in s
StrContains(s, needle) ==
    \E k \in 0..(Len(s) - Len(needle)) : SubSeq(s, k + 1, k + Len(needle)) = needle

\* s.startswith(prefix)
StartsWith(s, prefix) ==
    Len(s) >= Len(prefix) /\ SubSeq(s, 1, Len(prefix)) = prefix

\* s.replace(old, new): every non-overlapping occurrence, left to right
RECURSIVE StrReplace(_, _, _)
StrReplace(s, old, new) ==
    IF Len(s) < Len(old) THEN s
    ELSE IF SubSeq(s, 1, Len(old)) = old
         THEN new \o StrReplace(SubSeq(s, Len(old) + 1, Len(s)), old, new)
         ELSE <<s[1]>> \o StrReplace(Tail(s), old, new)

TasksIdx(i) == <<"tasks[">> \o Dec(i) \o <<"]">>      \* f"tasks[{i}]"
TasksBrace == <<"{{", "tasks[">>                      \* "{{tasks["
DetailsPrefix == <<"details">>                        \* "details"
DetailsId(n) == <<"details">> \o Dec(n)               \* f"details{n}"
TaskToken(i, field) == <<"{{">> \o TasksIdx(i) \o <<field, "}}">>

----------------------------------------------------------------------------
(* Nodes *)

NoAction == [type |-> "", targetElements |-> <<>>]
ToggleAction(targets) == [type |-> "Action.ToggleVisibility", targetElements |-> targets]
Target(id, vis) == [elementId |-> id, isVisible |-> vis]    \* vis: "true", "false", "unset"

\* A node: absent keys are the empty string, NoAction, or the empty list
Node(type, id, text, name, selectAction, items) ==
    [type |-> type, id |-> id, text |-> text, name |-> name,
     selectAction |-> selectAction, items |-> items, body |-> <<>>, isVisible |-> TRUE]

HasSelectAction(node) == node.selectAction # NoAction

RECURSIVE SeqToSet(_)
SeqToSet(s) == IF s = <<>> THEN {} ELSE {Head(s)} \cup SeqToSet(Tail(s))

\* every string of the serialized subtree (str(node) / json.dumps(node))
RECURSIVE Strings(_)
Strings(node) ==
    {node.id, node.text}
    \cup {node.selectAction.targetElements[k].elementId :
              k \in 1..Len(node.selectAction.targetElements)}
    \cup UNION {Strings(node.items[k]) : k \in 1..Len(node.items)}
    \cup UNION {Strings(node.body[k]) : k \in 1..Len(node.body)}

SerializedContains(node, needle) == \E s \in Strings(node) : StrContains(s, needle)

----------------------------------------------------------------------------
(* tasks_assigned.extract_task_section_template *)

\* the row test: a Container with a selectAction whose serialization holds
\* "tasks[0]" or "{{tasks["
IsFirstTaskRow(next_item) ==
    /\ next_item.type = "Container"
    /\ HasSelectAction(next_item)
    /\ (SerializedContains(next_item, TasksIdx(0)) \/ SerializedContains(next_item, TasksBrace))

\* the details test: a Container whose id is "details1" or starts with "details"
IsDetailsContainer(details_item) ==
    /\ details_item.type = "Container"
    /\ (details_item.id = DetailsId(1) \/ StartsWith(details_item.id, DetailsPrefix))

\* the inner loops run for a ColumnSet at index i: what they append to
\* table_elements (header, first row, and the first details container after it)
HeaderScan(items, i) ==
    LET rows == {j \in (i + 1)..Len(items) : IsFirstTaskRow(items[j])}
    IN  IF rows = {} THEN <<>>
        ELSE LET j == CHOOSE r \in rows : \A q \in rows : r <= q
                 dets == {k \in (j + 1)..Len(items) : IsDetailsContainer(items[k])}
             IN  <<items[i], items[j]>> \o
                 (IF dets = {} THEN <<>>
                  ELSE <<items[CHOOSE k \in dets : \A q \in dets : k <= q]>>)

\* find_table_structure: table_elements is filled but the function returns only
\* what a recursive call returned, and None when the loop ends
RECURSIVE find_table_structure(_)
find_table_structure(items) ==
    LET RECURSIVE loop(_, _)
        loop(i, table_elements) ==
            IF i > Len(items) THEN None
            ELSE LET item == items[i]
                     appended == IF item.type = "ColumnSet"
                                 THEN table_elements \o HeaderScan(items, i)
                                 ELSE table_elements
                     in_items == IF item.items # <<>> THEN find_table_structure(item.items) ELSE None
                     in_body == IF item.body # <<>> THEN find_table_structure(item.body) ELSE None
                 IN  IF in_items # None THEN in_items
                     ELSE IF in_body # None THEN in_body
                     ELSE loop(i + 1, appended)
    IN  loop(1, <<>>)

Fragment(header, row, details) ==
    [table_header |-> header, task_row_template |-> row, task_details_template |-> details]

\* an extractor that makes up a fragment from the first body element when the
\* search finds nothing
extract_task_section_template_Fallback(template) ==
    IF template.body = <<>> THEN None
    ELSE Some(Fragment(template.body[1], template.body[1], None))

extract_task_section_template(template) ==
    LET table_structure == find_table_structure(template.body)
    IN  IF table_structure # None /\ Len(table_structure) >= 2
        THEN Some(Fragment(table_structure[1], table_structure[2],
                           IF Len(table_structure) > 2 THEN Some(table_structure[3]) ELSE None))
        ELSE None

----------------------------------------------------------------------------
(* Templates enumerated for the extractor *)

Plain(text) == Node("TextBlock", <<>>, text, "", NoAction, <<>>)
HeaderNode == Node("ColumnSet", <<>>, <<"Title">>, "", NoAction, <<>>)
RowNode(text, target) ==
    Node("Container", <<>>, text, "", ToggleAction(<<Target(target, "unset")>>),
         <<Node("Icon", <<>>, <<>>, "CheckmarkStarburst", NoAction, <<>>)>>)
DetailsNode(id, text) ==
    Node("Container", id, text, "", NoAction,
         <<Node("Icon", <<>>, <<>>, "Info", NoAction, <<>>)>>) 
Wrapper(items) == Node("Container", <<>>, <<>>, "", NoAction, items)

SiblingKinds ==
    { HeaderNode,
      RowNode(TaskToken(0, ".title"), DetailsId(1)),     \* the sample row
      RowNode(TaskToken(1, ".title"), DetailsId(2)),     \* "{{tasks[" without index 0
      RowNode(<<"Open">>, DetailsId(1)),                 \* clickable, no task placeholder
      DetailsNode(DetailsId(1), TaskToken(0, ".detailsTitle")),
      Plain(<<"Footer">>) }

RECURSIVE SeqsOfLen(_, _)
SeqsOfLen(S, n) ==
    IF n = 0 THEN {<<>>} ELSE {<<x>> \o t : x \in S, t \in SeqsOfLen(S, n - 1)}

SeqsUpTo(S, n) == UNION {SeqsOfLen(S, k) : k \in 0..n}

SiblingLists == SeqsUpTo(SiblingKinds, MaxSiblings) \ {<<>>}

\* the table at the top of the body, or one level down inside a Container
FullTemplates ==
    {[body |-> l] : l \in SiblingLists}
    \cup {[body |-> <<Plain(<<"Banner">>), Wrapper(l)>>] : l \in SiblingLists}

----------------------------------------------------------------------------
(* cards/utils.get_icon_for_task_type: a label is a sequence of characters *)

UpperChars == <<"A", "B", "C", "D", "E", "F", "G", "H", "I", "J", "K", "L", "M",
                "N", "O", "P", "Q", "R", "S", "T", "U", "V", "W", "X", "Y", "Z">>
LowerChars == <<"a", "b", "c", "d", "e", "f", "g", "h", "i", "j", "k", "l", "m",
                "n", "o", "p", "q", "r", "s", "t", "u", "v", "w", "x", "y", "z">>

LowerChar(c) ==
    IF \E k \in 1..Len(UpperChars) : UpperChars[k] = c
    THEN LowerChars[CHOOSE k \in 1..Len(UpperChars) : UpperChars[k] = c]
    ELSE c

\* str.lower()
Lower(s) == [k \in 1..Len(s) |-> LowerChar(s[k])]

\* str.strip(): leading and trailing whitespace removed
RECURSIVE LStrip(_)
LStrip(s) == IF s # <<>> /\ Head(s) = " " THEN LStrip(Tail(s)) ELSE s
RECURSIVE RStrip(_)
RStrip(s) == IF s # <<>> /\ s[Len(s)] = " " THEN RStrip(SubSeq(s, 1, Len(s) - 1)) ELSE s
Strip(s) == RStrip(LStrip(s))

\* the synonym table of get_icon_for_task_type
IconMapping(key) ==
    CASE key = <<"a", "g", "r", "e", "e", "m", "e", "n", "t">> -> "CheckmarkStarburst"
      [] key = <<"v", "e", "r", "e", "i", "n", "b", "a", "r", "u", "n", "g">> -> "CheckmarkStarburst"
      [] key = <<"d", "e", "c", "i", "s", "i", "o", "n">> -> "Diamond"
      [] key = <<"d", "e", "c", "i", "s", "o", "n">> -> "Diamond"
      [] key = <<"d", "e", "c", "i", "s", "o", "n", "j">> -> "Diamond"
      [] key = <<"e", "n", "t", "s", "c", "h", "e", "i", "d", "u", "n", "g">> -> "Diamond"
      [] key = <<"i", "s", "s", "u", "e">> -> "Info"
      [] key = <<"i", "n", "f", "o">> -> "Info"
      [] OTHER -> "CheckmarkStarburst"

\* a mapping that looks the label up as it was given
get_icon_for_task_type_NoStrip(task_type) ==
    IF task_type = None THEN "CheckmarkStarburst"
    ELSE IconMapping(Lower(task_type[1]))

\* task_type is optional: None, or a label
get_icon_for_task_type(task_type) ==
    IF task_type = None THEN "CheckmarkStarburst"
    ELSE IconMapping(Lower(Strip(task_type[1])))

----------------------------------------------------------------------------
(* tasks_assigned.generate_task_sections *)

\* str.replace applied to the serialized subtree: to every string in it
RECURSIVE ReplaceInSubtree(_, _, _)
ReplaceInSubtree(node, old, new) ==
    [node EXCEPT
        !.id = StrReplace(@, old, new),
        !.text = StrReplace(@, old, new),
        !.selectAction = [@ EXCEPT !.targetElements =
            [k \in 1..Len(@) |-> [@[k] EXCEPT !.elementId = StrReplace(@, old, new)]]],
        !.items = [k \in 1..Len(@) |-> ReplaceInSubtree(@[k], old, new)],
        !.body = [k \in 1..Len(@) |-> ReplaceInSubtree(@[k], old, new)]]

ReplaceableIcons == {"CheckmarkStarburst", "Diamond", "Info"}

RECURSIVE set_icons_in_subtree(_, _)
set_icons_in_subtree(obj, icon_name) ==
    [obj EXCEPT
        !.name = IF obj.type = "Icon" /\ obj.name \in ReplaceableIcons THEN icon_name ELSE @,
        !.items = [k \in 1..Len(@) |-> set_icons_in_subtree(@[k], icon_name)],
        !.body = [k \in 1..Len(@) |-> set_icons_in_subtree(@[k], icon_name)]]

\* every ToggleVisibility selectAction of the subtree gets the single target
\* {"elementId": details_id}
RECURSIVE fix_row_toggle_action(_, _)
fix_row_toggle_action(row_container, details_id) ==
    [row_container EXCEPT
        !.selectAction = IF @.type = "Action.ToggleVisibility"
                         THEN [@ EXCEPT !.targetElements = <<Target(details_id, "unset")>>]
                         ELSE @,
        !.items = [k \in 1..Len(@) |-> fix_row_toggle_action(@[k], details_id)],
        !.body = [k \in 1..Len(@) |-> fix_row_toggle_action(@[k], details_id)]]

\* the two literal replacements of one copy, at 0-based position i
RewriteForIndex(template, i) ==
    ReplaceInSubtree(ReplaceInSubtree(template, TasksIdx(0), TasksIdx(i)),
                     DetailsId(1), DetailsId(i + 1))

\* tasks[i].get("type"), or the exception that leaves the icons alone
IconsForTask(node, task_list, i) ==
    IF i + 1 <= Len(task_list)
    THEN set_icons_in_subtree(node, get_icon_for_task_type(task_list[i + 1].type))
    ELSE node

GeneratedRow(task_row_template, task_list, i) ==
    fix_row_toggle_action(IconsForTask(RewriteForIndex(task_row_template, i), task_list, i),
                          DetailsId(i + 1))

GeneratedDetails(task_details_template, task_list, i) ==
    IconsForTask(RewriteForIndex(task_details_template, i), task_list, i)

\* a slip that would emit the details copy before its row
SectionsForTask_DetailsFirst(fragment, task_list, i) ==
    (IF fragment.task_details_template # None
     THEN <<GeneratedDetails(fragment.task_details_template[1], task_list, i)>>
     ELSE <<>>) \o
    <<GeneratedRow(fragment.task_row_template, task_list, i)>>

\* the loop body for position i: the row, then the details when there is a template
SectionsForTask(fragment, task_list, i) ==
    <<GeneratedRow(fragment.task_row_template, task_list, i)>> \o
    (IF fragment.task_details_template # None
     THEN <<GeneratedDetails(fragment.task_details_template[1], task_list, i)>>
     ELSE <<>>)

RECURSIVE SectionsFrom(_, _, _, _)
SectionsFrom(fragment, task_list, i, task_count) ==
    IF i >= task_count THEN <<>>
    ELSE SectionsForTask(fragment, task_list, i) \o SectionsFrom(fragment, task_list, i + 1, task_count)

\* task_template is optional (None is the "invalid template" early return)
generate_task_sections(template, task_count, task_list) ==
    IF template = None THEN <<>>
    ELSE <<template[1].table_header>> \o SectionsFrom(template[1], task_list, 0, task_count)

----------------------------------------------------------------------------
(* cards/utils.populate_placeholders *)

IsDigitAtom(a) == \E n \in 0..9 : Digit(n) = a

\* int(text) of a sequence of digit atoms
RECURSIVE IntOf(_)
IntOf(digits) ==
    IF digits = <<>> THEN 0
    ELSE 10 * IntOf(SubSeq(digits, 1, Len(digits) - 1))
         + (CHOOSE n \in 0..9 : Digit(n) = digits[Len(digits)])

\* position of the first atom a in s, 0 when there is none
FirstIndexOf(s, a) ==
    IF \E k \in 1..Len(s) : s[k] = a
    THEN CHOOSE k \in 1..Len(s) : s[k] = a /\ \A q \in 1..(k - 1) : s[q] # a
    ELSE 0

\* result[part] for a task record: the fields a record has; KeyError otherwise
TaskField(task, field) ==
    CASE field = ".title" -> Some(task.title)
      [] field = ".type" /\ task.type # None -> Some(task.type[1])
      [] OTHER -> None

\* int() of the bracket index raises ValueError, which replacer does not catch
PlaceholderRaises(placeholder) ==
    LET close == FirstIndexOf(placeholder, "]")
        index_atoms == SubSeq(placeholder, 2, close - 1)
    IN  /\ placeholder # <<>> /\ placeholder[1] = "tasks[" /\ close > 1
        /\ (index_atoms = <<>> \/ \E k \in 1..Len(index_atoms) : ~IsDigitAtom(index_atoms[k]))

\* replacer(match) for the text between "{{" and "}}": the replacement text,
\* or None when the lookup fails with KeyError, IndexError or TypeError and the
\* token is left as it is.  A placeholder is tasks[<index>] followed by one
\* field, or a plain dotted name (the data holds no key but 'tasks').  The
\* ValueError of a bracket index that is no number is PlaceholderRaises.
ResolvePlaceholder(placeholder, data) ==
    LET close == FirstIndexOf(placeholder, "]")
        index_atoms == SubSeq(placeholder, 2, close - 1)
        rest == SubSeq(placeholder, close + 1, Len(placeholder))
    IN  IF PlaceholderRaises(placeholder) THEN None
        ELSE IF placeholder # <<>> /\ placeholder[1] = "tasks[" /\ close > 1
        THEN IF IntOf(index_atoms) + 1 > Len(data.tasks) THEN None
             ELSE IF Len(rest) = 1 THEN TaskField(data.tasks[IntOf(index_atoms) + 1], rest[1])
             ELSE None
        ELSE None

\* re.sub(r'\{\{([^}]+)\}\}', replacer, obj) on one string
RECURSIVE SubstitutePlaceholders(_, _)
SubstitutePlaceholders(str, data) ==
    IF str = <<>> THEN <<>>
    ELSE LET close == FirstIndexOf(str, "}}")
         IN  IF str[1] = "{{" /\ close > 2
             THEN LET value == ResolvePlaceholder(SubSeq(str, 2, close - 1), data)
                  IN  (IF value = None THEN SubSeq(str, 1, close) ELSE value[1])
                      \o SubstitutePlaceholders(SubSeq(str, close + 1, Len(str)), data)
             ELSE <<str[1]>> \o SubstitutePlaceholders(Tail(str), data)

\* replace_placeholders over a tree: a new tree with every string substituted
RECURSIVE replace_placeholders(_, _)
replace_placeholders(obj, data) ==
    [obj EXCEPT
        !.id = SubstitutePlaceholders(@, data),
        !.text = SubstitutePlaceholders(@, data),
        !.selectAction = [@ EXCEPT !.targetElements =
            [k \in 1..Len(@) |-> [@[k] EXCEPT !.elementId = SubstitutePlaceholders(@, data)]]],
        !.items = [k \in 1..Len(@) |-> replace_placeholders(@[k], data)],
        !.body = [k \in 1..Len(@) |-> replace_placeholders(@[k], data)]]

\* replace_icon_names(obj, from_name, to_name)
RECURSIVE replace_icon_names(_, _, _)
replace_icon_names(obj, from_name, to_name) ==
    [obj EXCEPT
        !.name = IF obj.type = "Icon" /\ obj.name = from_name THEN to_name ELSE @,
        !.items = [k \in 1..Len(@) |-> replace_icon_names(@[k], from_name, to_name)],
        !.body = [k \in 1..Len(@) |-> replace_icon_names(@[k], from_name, to_name)]]

\* populate_placeholders on a card {"body": [...]}
populate_placeholders(template, data) ==
    [template EXCEPT !.body =
        [k \in 1..Len(@) |->
            replace_icon_names(replace_placeholders(@[k], data), "CheckmarkCircle", "Info")]]

----------------------------------------------------------------------------
(* tasks_assigned.inject_task_sections_into_card, build_dynamic_card_with_tasks *)

\* list.insert(index, x): a negative index counts from the end, and the index
\* is clamped to the list
ListInsert(list, index, x) ==
    LET from_end == IF index < 0 THEN index + Len(list) ELSE index
        at == IF from_end < 0 THEN 0 ELSE IF from_end > Len(list) THEN Len(list) ELSE from_end
    IN  SubSeq(list, 1, at) \o <<x>> \o SubSeq(list, at + 1, Len(list))

\* a Container one of whose items is an ActionSet
IsFooterMarked(item) ==
    item.type = "Container" /\ \E k \in 1..Len(item.items) : item.items[k].type = "ActionSet"

\* the loop over the body: the inner break leaves the outer loop running, so
\* the last footer-marked element sets the index (0-based); len(body) - 1 if none
InsertionIndex(body) ==
    LET marked == {i \in 1..Len(body) : IsFooterMarked(body[i])}
    IN  IF marked = {} THEN Len(body) - 1
        ELSE (CHOOSE i \in marked : \A q \in marked : q <= i) - 1

RECURSIVE InsertSections(_, _, _, _)
InsertSections(body, insertion_index, task_sections, i) ==
    IF i >= Len(task_sections) THEN body
    ELSE InsertSections(ListInsert(body, insertion_index + i, task_sections[i + 1]),
                        insertion_index, task_sections, i + 1)

inject_task_sections_into_card(c, task_sections) ==
    [c EXCEPT !.body = InsertSections(@, InsertionIndex(@), task_sections, 0)]

\* a builder that falls back to the bare base template when no fragment is found
build_dynamic_card_with_tasks_Default(base, full, data) ==
    IF base = None THEN None
    ELSE IF full = None THEN base
    ELSE IF extract_task_section_template(full[1]) = None THEN base
    ELSE Some(populate_placeholders(base[1], data))

\* base and full are the optional results of load_card_by_name
build_dynamic_card_with_tasks(base, full, data) ==
    IF base = None THEN None
    ELSE IF full = None THEN None
    ELSE LET task_count == Len(data.tasks)
             task_section_template == extract_task_section_template(full[1])
         IN  IF task_section_template = None THEN None
             ELSE Some(populate_placeholders(
                          IF task_count > 0
                          THEN inject_task_sections_into_card(
                                   base[1],
                                   generate_task_sections(task_section_template, task_count, data.tasks))
                          ELSE base[1],
                          data))

----------------------------------------------------------------------------
(* Inputs enumerated for the multiplier *)

Label(chars) == Some(chars)

TaskRecord(type, title) == [type |-> type, title |-> title]
TaskRecords ==
    { TaskRecord(Label(<<"a", "g", "r", "e", "e", "m", "e", "n", "t">>), <<"Plan">>),
      TaskRecord(Label(<<" ", "D", "e", "c", "i", "s", "i", "o", "n", " ">>), <<"Budget">>),
      TaskRecord(Label(<<"i", "s", "s", "u", "e">>), <<"Outage">>),
      TaskRecord(None, <<"Plan">>) }
TaskLists == SeqsUpTo(TaskRecords, MaxTasks)

\* row templates the extractor's row test accepts
RowTemplates ==
    { RowNode(TaskToken(0, ".title"), DetailsId(1)),
      RowNode(TaskToken(0, ".title") \o <<" ">> \o TaskToken(0, ".dueDate"), DetailsId(1)) }

\* details templates the extractor's details test accepts, and none
DetailsTemplates ==
    { None,
      Some(DetailsNode(DetailsId(1), TaskToken(0, ".detailsTitle"))),
      Some(DetailsNode(DetailsId(2), TaskToken(0, ".detailsTitle"))),
      Some(DetailsNode(<<"details", "Panel">>, TaskToken(0, ".detailsTitle"))),
      Some(DetailsNode(DetailsPrefix, TaskToken(0, ".detailsTitle"))) }

Fragments == {Fragment(HeaderNode, r, d) : r \in RowTemplates, d \in DetailsTemplates}

----------------------------------------------------------------------------
(* Specifications of the pure card operations *)

NoRegion == [kind |-> "none", path |-> <<>>]

\* the variables of build_dynamic_card_with_tasks while another operation runs
ComposeIdle ==
    /\ base_template = None
    /\ dynamic_card = None

\* the variables of the delivery services while another operation runs
DeliveryIdle ==
    /\ service = ""
    /\ email = ""
    /\ card_data = FALSE
    /\ progress_items = <<>>
    /\ CONVERSATION_REFERENCE = FALSE
    /\ adaptive_card = None
    /\ bot_error = None
    /\ graph_error = None
    /\ chat_id = None
    /\ sends = <<>>
    /\ response = None

\* the variables of the card update while another operation runs
UpdateIdle ==
    /\ activity_id = None
    /\ conversation_reference = None
    /\ STORED_REFERENCE = None
    /\ tried = <<>>
    /\ attempt_log = <<>>
    /\ last_err = None
    /\ update_result = None

\* the variables of the utility functions and of update_card_service while
\* another operation runs
\* the variables of the scheduler while another operation runs
SchedulerIdle ==
    /\ grouped_items = <<>>
    /\ next_group = 0
    /\ notification_results = <<>>
    /\ user_email = None
    /\ group_progress_items = None
    /\ run_outcome = None

UtilIdle ==
    /\ SchedulerIdle
    /\ updated_card = FALSE
    /\ template_arg = None
    /\ populated_card = None
    /\ task_type_arg = None
    /\ icon_names = None
    /\ task_arg = None
    /\ is_completed = None

ChannelsIdle == DeliveryIdle /\ UpdateIdle /\ UtilIdle

\* the variables of the upcoming-deadline card while another operation runs
DeadlineIdle ==
    /\ deadline_template = None
    /\ card = None
    /\ visible = {}
    /\ lastActivated = NoRegion

InitExtract ==
    /\ pc = "extract"
    /\ full_template \in {Some(t) : t \in FullTemplates}
    /\ extracted = None
    /\ task_template = None
    /\ tasks = <<>>
    /\ table_sections = <<>>
    /\ ComposeIdle
    /\ DeadlineIdle
    /\ ChannelsIdle

Extract ==
    /\ pc = "extract"
    /\ extracted' = extract_task_section_template(full_template[1])
    /\ pc' = "extracted"
    /\ UNCHANGED <<full_template, task_template, tasks, table_sections, base_template,
                   dynamic_card, deadlineVars, channelVars>>

NextExtract == Extract

SpecExtract == InitExtract /\ [][NextExtract]_vars

InitMultiply ==
    /\ pc = "generate"
    /\ task_template \in {Some(f) : f \in Fragments}
    /\ tasks \in TaskLists
    /\ table_sections = <<>>
    /\ full_template = None
    /\ extracted = None
    /\ ComposeIdle
    /\ DeadlineIdle
    /\ ChannelsIdle

\* the fragment after the call, had the rewriting, the icons and the toggle
\* action been written into the row template itself
TemplateAfterGenerate_InPlace(fragment, task_list) ==
    IF task_list = <<>> THEN fragment
    ELSE [fragment EXCEPT !.task_row_template = GeneratedRow(@, task_list, Len(task_list) - 1)]

\* the fragment after the call: the header, the row template and the details
\* template are deep-copied before anything is written
TemplateAfterGenerate(fragment, task_list) == fragment

Generate ==
    /\ pc = "generate"
    /\ table_sections' = generate_task_sections(task_template, Len(tasks), tasks)
    /\ task_template' = Some(TemplateAfterGenerate(task_template[1], tasks))
    /\ pc' = "generated"
    /\ UNCHANGED <<full_template, extracted, tasks, base_template,
                   dynamic_card, deadlineVars, channelVars>>

NextMultiply == Generate

SpecMultiply == InitMultiply /\ [][NextMultiply]_vars

----------------------------------------------------------------------------
(* Claims about the extractor and the multiplier *)

\* every sibling list reached from a list through 'items' and 'body'
RECURSIVE ListsUnder(_)
ListsUnder(items) ==
    {items} \cup UNION {ListsUnder(items[k].items) \cup ListsUnder(items[k].body) : k \in 1..Len(items)}

IsClaimedRow(node) ==
    node.type = "Container" /\ HasSelectAction(node) /\ SerializedContains(node, TasksIdx(0))

HasClaimedTable(template) ==
    \E l \in ListsUnder(template.body) :
        \E i, j, k \in 1..Len(l) :
            /\ i < j /\ j < k
            /\ l[i].type = "ColumnSet"
            /\ IsClaimedRow(l[j])
            /\ l[k].type = "Container" /\ StartsWith(l[k].id, DetailsPrefix)

\* C1: for every full template holding a ColumnSet followed by a clickable
\* Container that mentions tasks[0], followed later by a Container whose id
\* starts with "details", the extractor returns a fragment (not None) whose
\* header is a ColumnSet, whose row is such a Container and whose details is
\* such a details Container.
C1_ExtractReturnsFragment ==
    (pc = "extracted" /\ HasClaimedTable(full_template[1])) =>
        /\ extracted # None
        /\ extracted[1].table_header.type = "ColumnSet"
        /\ IsClaimedRow(extracted[1].task_row_template)
        /\ extracted[1].task_details_template # None
        /\ StartsWith(extracted[1].task_details_template[1].id, DetailsPrefix)

IconNames(node) == {node.items[k].name : k \in {q \in 1..Len(node.items) : node.items[q].type = "Icon"}}

\* C2: with len(tasks) = N the result is the header once, then for each record
\* in order its row, immediately followed by its details when the fragment has
\* a details template: 1 + 2N nodes with a details template, 1 + N without,
\* [header] alone for N = 0.  Row i and details i are recognised by the index
\* i in their placeholders and by the icon of record i.
C2_HeaderThenPairsInOrder ==
    pc = "generated" =>
        LET fragment == task_template[1]
            N == Len(tasks)
            stride == IF fragment.task_details_template # None THEN 2 ELSE 1
        IN  /\ Len(table_sections) = 1 + stride * N
            /\ table_sections[1] = fragment.table_header
            /\ \A k \in 2..Len(table_sections) : table_sections[k].type # "ColumnSet"
            /\ \A i \in 0..(N - 1) :
                  LET row == table_sections[2 + stride * i]
                  IN  /\ HasSelectAction(row)
                      /\ SerializedContains(row, TasksIdx(i))
                      /\ \A j \in 0..(N - 1) : j # i => ~SerializedContains(row, TasksIdx(j))
                      /\ IconNames(row) = {get_icon_for_task_type(tasks[i + 1].type)}
            /\ stride = 2 =>
                  \A i \in 0..(N - 1) :
                      LET details == table_sections[3 + 2 * i]
                      IN  /\ ~HasSelectAction(details)
                          /\ StartsWith(details.id, DetailsPrefix)
                          /\ SerializedContains(details, TasksIdx(i))
                          /\ IconNames(details) = {get_icon_for_task_type(tasks[i + 1].type)}

C2_Witness ==
    /\ pc = "generated"
    /\ Len(tasks) = 3
    /\ task_template[1].task_details_template # None
    /\ Len(table_sections) = 7
    /\ tasks[1].type # tasks[2].type

\* C3: for every fragment the extractor accepts and every N >= 2, the N details
\* nodes carry the ids details1..detailsN in record order (pairwise distinct).
C3_DetailsIdsNumbered ==
    (pc = "generated" /\ Len(tasks) >= 2 /\ task_template[1].task_details_template # None) =>
        \A i \in 0..(Len(tasks) - 1) : table_sections[3 + 2 * i].id = DetailsId(i + 1)

----------------------------------------------------------------------------
(* upcoming_deadline.build_upcoming_deadline_card *)

IconNode(name) == Node("Icon", <<>>, <<>>, name, NoAction, <<>>)

\* task.get('type', ''): the label, or the empty string
TypeText(task) == IF task.type = None THEN <<>> ELSE task.type[1]

\* _build_task_row_from_reference (the nested columns flattened into items)
build_task_row_from_reference(task, details_id) ==
    Node("Container", <<>>, TypeText(task), "",
         ToggleAction(<<Target(details_id, "unset")>>),
         << IconNode(get_icon_for_task_type(task.type)),
            Node("Input.Toggle", <<>>, <<>>, "", NoAction, <<>>),
            IconNode("info") >>)

\* _build_task_details_from_reference: the details container starts invisible
build_task_details_from_reference(task, details_id) ==
    [Node("Container", details_id, <<"Meeting origin">>, "", NoAction,
          <<IconNode("Calendar"), IconNode("Target")>>)
        EXCEPT !.isVisible = FALSE]

\* details_ids: details1..detailsN
DetailsIds(task_list) == [k \in 1..Len(task_list) |-> DetailsId(k)]

\* rows_and_details: row k at 2k-1, its details at 2k (1-based)
RowsAndDetails(task_list) ==
    [k \in 1..(2 * Len(task_list)) |->
        IF k % 2 = 1
        THEN build_task_row_from_reference(task_list[(k + 1) \div 2], DetailsId((k + 1) \div 2))
        ELSE build_task_details_from_reference(task_list[k \div 2], DetailsId(k \div 2))]

\* a wiring that shows the row's own details and leaves the others as they are
ExclusiveTargets_OwnOnly(details_ids, did) ==
    <<Target(did, "true")>>

\* the targets of one row: every details id, visible only for the row's own
ExclusiveTargets(details_ids, did) ==
    [k \in 1..Len(details_ids) |->
        Target(details_ids[k], IF details_ids[k] = did THEN "true" ELSE "false")]

\* the exclusive-open loop over the rows of rows_and_details
WireExclusive(rows_and_details, details_ids) ==
    [k \in 1..Len(rows_and_details) |->
        IF k % 2 = 1
        THEN [rows_and_details[k] EXCEPT
                 !.selectAction = ToggleAction(ExclusiveTargets(details_ids, details_ids[(k + 1) \div 2]))]
        ELSE rows_and_details[k]]

\* a close action that names no element
make_close_action_Empty(ids) == ToggleAction(<<>>)

\* _make_close_action: every id set invisible
make_close_action(ids) ==
    ToggleAction([k \in 1..Len(ids) |-> Target(ids[k], "false")])

IsRowsContainer(itm) == itm.type = "Container" /\ itm.id = <<"rowsContainer">>

\* the places <<b, k>> of a rowsContainer among the items of the body elements
RowsContainerPlaces(body) ==
    UNION {{<<b, k>> : k \in {q \in 1..Len(body[b].items) : IsRowsContainer(body[b].items[q])}} :
              b \in 1..Len(body)}

\* the first one in body order, then item order
FirstRowsContainer(body) ==
    CHOOSE p \in RowsContainerPlaces(body) :
        \A q \in RowsContainerPlaces(body) : p[1] < q[1] \/ (p[1] = q[1] /\ p[2] <= q[2])

\* the click-outside-to-close wiring: body[0], body[1], body[2].items[0], body[-1]
WireClosers(body, details_ids) ==
    LET close == make_close_action(details_ids)
        b1 == IF Len(body) > 0 THEN [body EXCEPT ![1].selectAction = close] ELSE body
        b2 == IF Len(b1) > 1 THEN [b1 EXCEPT ![2].selectAction = close] ELSE b1
        b3 == IF Len(b2) > 2 /\ Len(b2[3].items) > 0
              THEN [b2 EXCEPT ![3].items[1].selectAction = close] ELSE b2
        b4 == IF Len(b3) > 0 THEN [b3 EXCEPT ![Len(b3)].selectAction = close] ELSE b3
    IN  b4

\* template is optional (None when the file is missing); the result is optional
build_upcoming_deadline_card(template, task_list) ==
    IF template = None THEN None
    ELSE IF RowsContainerPlaces(template[1].body) = {} THEN None
    ELSE LET body == template[1].body
             place == FirstRowsContainer(body)
             details_ids == DetailsIds(task_list)
             rows_and_details == IF details_ids # <<>>
                                 THEN WireExclusive(RowsAndDetails(task_list), details_ids)
                                 ELSE RowsAndDetails(task_list)
             filled == [body EXCEPT ![place[1]].items[place[2]].items = rows_and_details]
         IN  Some([template[1] EXCEPT
                     !.body = IF details_ids # <<>> THEN WireClosers(filled, details_ids) ELSE filled])

----------------------------------------------------------------------------
(* The upcoming-deadline card and its activations *)

Section(text, items) == Node("Container", <<>>, text, "", NoAction, items)
RowsContainer == Node("Container", <<"rowsContainer">>, <<>>, "", NoAction, <<>>)
TableWrapper == Section(<<>>, <<HeaderNode, RowsContainer>>)
FooterSection == Section(<<>>, <<Node("ActionSet", <<>>, <<>>, "", NoAction, <<>>)>>)

\* upcoming_deadline_temple.json as the code expects it (header, meeting title,
\* table wrapper, footer), and shapes that move or drop what the code looks up
DeadlineTemplates ==
    { Some([body |-> <<Section(<<"Header">>, <<>>), Section(<<"Meeting">>, <<>>),
                       TableWrapper, FooterSection>>]),
      Some([body |-> <<Section(<<"Header">>, <<>>), Section(<<"Meeting">>, <<>>),
                       Section(<<>>, <<RowsContainer, HeaderNode>>), FooterSection>>]),
      Some([body |-> <<Section(<<"Header">>, <<>>), Section(<<"Meeting">>, <<>>),
                       Section(<<"Banner">>, <<>>), TableWrapper, FooterSection>>]),
      Some([body |-> <<Section(<<"Header">>, <<>>), TableWrapper>>]),
      Some([body |-> <<TableWrapper>>]),
      Some([body |-> <<Section(<<"Header">>, <<>>), FooterSection>>]),
      None }

\* the rows and details of a built card: the items of its rowsContainer
RowsItems(c) ==
    LET place == FirstRowsContainer(c.body)
    IN  c.body[place[1]].items[place[2]].items

\* what the renderer shows first: the elements not marked isVisible = false
InitiallyVisible(c) ==
    {RowsItems(c)[k].id : k \in {q \in 1..Len(RowsItems(c)) :
                                    RowsItems(c)[q].id # <<>> /\ RowsItems(c)[q].isVisible}}

\* Action.ToggleVisibility: each target in turn is shown, hidden, or toggled
RECURSIVE ApplyToggle(_, _)
ApplyToggle(shown, targets) ==
    IF targets = <<>> THEN shown
    ELSE LET t == Head(targets)
             next == CASE t.isVisible = "true" -> shown \cup {t.elementId}
                       [] t.isVisible = "false" -> shown \ {t.elementId}
                       [] OTHER -> IF t.elementId \in shown
                                   THEN shown \ {t.elementId} ELSE shown \cup {t.elementId}
         IN  ApplyToggle(next, Tail(targets))

\* the clickable regions outside the rows: body elements and their items
CloserPaths(c) ==
    {<<b>> : b \in {q \in 1..Len(c.body) : HasSelectAction(c.body[q])}}
    \cup UNION {{<<b, k>> : k \in {q \in 1..Len(c.body[b].items) : HasSelectAction(c.body[b].items[q])}} :
                   b \in 1..Len(c.body)}

CloserAction(c, path) ==
    IF Len(path) = 1 THEN c.body[path[1]].selectAction
    ELSE c.body[path[1]].items[path[2]].selectAction

InitDeadline ==
    /\ pc = "build"
    /\ deadline_template \in DeadlineTemplates
    /\ tasks \in TaskLists
    /\ card = None
    /\ visible = {}
    /\ lastActivated = NoRegion
    /\ full_template = None
    /\ extracted = None
    /\ task_template = None
    /\ table_sections = <<>>
    /\ ComposeIdle
    /\ ChannelsIdle

BuildDeadlineCard ==
    /\ pc = "build"
    /\ card' = build_upcoming_deadline_card(deadline_template, tasks)
    /\ pc' = IF card' = None THEN "failed" ELSE "shown"
    /\ visible' = IF card' = None THEN {} ELSE InitiallyVisible(card'[1])
    /\ UNCHANGED <<tasks, deadline_template, lastActivated, cardVars, channelVars>>

\* the user clicks row r (1-based) of the card
ActivateRow(r) ==
    /\ pc = "shown"
    /\ HasSelectAction(RowsItems(card[1])[2 * r - 1])
    /\ visible' = ApplyToggle(visible, RowsItems(card[1])[2 * r - 1].selectAction.targetElements)
    /\ lastActivated' = [kind |-> "row", path |-> <<r>>]
    /\ UNCHANGED <<pc, tasks, deadline_template, card, cardVars, channelVars>>

\* the user clicks a region outside the rows
ActivateCloser(path) ==
    /\ pc = "shown"
    /\ visible' = ApplyToggle(visible, CloserAction(card[1], path).targetElements)
    /\ lastActivated' = [kind |-> "closer", path |-> path]
    /\ UNCHANGED <<pc, tasks, deadline_template, card, cardVars, channelVars>>

NextDeadline ==
    \/ BuildDeadlineCard
    \/ \E r \in 1..Len(tasks) : ActivateRow(r)
    \/ \E path \in (IF pc = "shown" THEN CloserPaths(card[1]) ELSE {}) : ActivateCloser(path)

SpecDeadline == InitDeadline /\ [][NextDeadline]_vars

\* C4: in the card built for N >= 1 tasks, the selectAction of the row at
\* position r has N targets naming each of details1..detailsN exactly once, of
\* which exactly one is visible: details(r+1), the row's own details.
C4_RowTargetsExclusive ==
    (pc = "shown" /\ Len(tasks) >= 1) =>
        \A r \in 1..Len(tasks) :
            LET targets == RowsItems(card[1])[2 * r - 1].selectAction.targetElements
            IN  /\ Len(targets) = Len(tasks)
                /\ \A n \in 1..Len(tasks) :
                      Cardinality({k \in 1..Len(targets) : targets[k].elementId = DetailsId(n)}) = 1
                /\ {k \in 1..Len(targets) : targets[k].isVisible = "true"}
                      = {k \in 1..Len(targets) : targets[k].elementId = DetailsId(r)}
                /\ RowsItems(card[1])[2 * r].id = DetailsId(r)

C4_Witness ==
    /\ pc = "shown"
    /\ Len(tasks) = 3
    /\ Len(RowsItems(card[1])[3].selectAction.targetElements) = 3
    /\ RowsItems(card[1])[3].selectAction.targetElements[2].isVisible = "true"

\* C5: all details containers start invisible, and after any sequence of
\* activations of rows and closers at most one details container is visible:
\* right after activating row r exactly row r's details, right after
\* activating a closer none.
C5_AtMostOneDetailsVisible ==
    pc = "shown" =>
        /\ Cardinality(visible) <= 1
        /\ lastActivated.kind = "none" => visible = {}
        /\ lastActivated.kind = "row" => visible = {DetailsId(lastActivated.path[1])}
        /\ lastActivated.kind = "closer" => visible = {}

C5_Witness ==
    /\ pc = "shown"
    /\ Len(tasks) = 3
    /\ lastActivated = [kind |-> "row", path |-> <<2>>]
    /\ visible = {DetailsId(2)}

----------------------------------------------------------------------------
(* build_dynamic_card_with_tasks on enumerated templates *)

BaseTemplates ==
    { None,
      Some([body |-> <<Section(<<"Header">>, <<>>), FooterSection>>]),
      Some([body |-> <<Section(<<"Header">>, <<>>), Plain(<<"Intro">>), FooterSection>>]),
      Some([body |-> <<Section(<<"Header">>, <<>>), FooterSection, Plain(<<"Legal">>)>>]),
      Some([body |-> <<FooterSection, Plain(<<"Intro">>), FooterSection>>]),
      Some([body |-> <<Section(<<"Header">>, <<>>), Plain(<<"Intro">>)>>]),
      Some([body |-> <<Plain(<<"Intro">>)>>]),
      Some([body |-> <<>>]) }

SampleRow == RowNode(TaskToken(0, ".title"), DetailsId(1))
SampleDetails == DetailsNode(DetailsId(1), TaskToken(0, ".title"))

ComposeFullTemplates ==
    { None,
      Some([body |-> <<HeaderNode, SampleRow, SampleDetails>>]),
      Some([body |-> <<Plain(<<"Banner">>), Wrapper(<<HeaderNode, SampleRow, SampleDetails>>)>>]),
      Some([body |-> <<HeaderNode, SampleRow>>]),
      Some([body |-> <<Plain(<<"Banner">>), SampleDetails>>]) }

InitCompose ==
    /\ pc = "compose"
    /\ base_template \in BaseTemplates
    /\ full_template \in ComposeFullTemplates
    /\ tasks \in TaskLists
    /\ dynamic_card = None
    /\ extracted = None
    /\ task_template = None
    /\ table_sections = <<>>
    /\ DeadlineIdle
    /\ ChannelsIdle

Compose ==
    /\ pc = "compose"
    /\ dynamic_card' = build_dynamic_card_with_tasks(base_template, full_template, [tasks |-> tasks])
    /\ pc' = "composed"
    /\ UNCHANGED <<tasks, full_template, extracted, task_template, table_sections,
                   base_template, deadlineVars, channelVars>>

NextCompose == Compose

SpecCompose == InitCompose /\ [][NextCompose]_vars

\* the only footer-marked element of the body is its last element
SingleFooterLast(body) ==
    {i \in 1..Len(body) : IsFooterMarked(body[i])} = {Len(body)} /\ Len(body) >= 1

\* C10: for a full template with a header, a row template holding the index-0
\* marker and a details container 'details1', and a base skeleton whose only
\* footer-marked container is its last body element, the card built for 3
\* tasks keeps the footer as its last body element with the 3 row/details
\* pairs immediately before it, in input order.
C10_FooterLastPairsBefore ==
    ( /\ pc = "composed"
      /\ Len(tasks) = 3
      /\ base_template # None /\ full_template # None
      /\ SingleFooterLast(base_template[1].body)
      /\ HasClaimedTable(full_template[1]) ) =>
        /\ dynamic_card # None
        /\ LET body == dynamic_card[1].body
               n == Len(body)
           IN  /\ n = Len(base_template[1].body) + 7
               /\ IsFooterMarked(body[n])
               /\ \A i \in 0..2 :
                     /\ HasSelectAction(body[n - 6 + 2 * i])
                     /\ body[n - 6 + 2 * i].text = tasks[i + 1].title
                     /\ body[n - 5 + 2 * i].id = DetailsId(i + 1)

----------------------------------------------------------------------------
(* card_update_service.update_card_via_bot_framework *)

ActivityIds == {"act-1", "act-2"}

Err(what, id) == [what |-> what, id |-> id]
UpdateFailed(attempt_id) == Err("update_activity failed", Some(attempt_id))

Raised(err) ==
    [status |-> "raised", method |-> "", activity_id |-> None, used_activity_id |-> None,
     ref_activity_id |-> None, error |-> Some(err)]

\* conversation_reference.get("activityId") if it is a dict, else None
RefActivityId(reference) == IF reference = None THEN None ELSE reference[1].activityId

\* ref.service_url after the reference is resolved and merged with the stored one
ResolvedServiceUrl(reference, stored) ==
    IF reference # None
    THEN reference[1].service_url \/ (stored # None /\ stored[1].service_url)
    ELSE stored # None /\ stored[1].service_url

\* activity_id or ref_activity_id
ChosenActivityId(explicit_id, ref_activity_id) ==
    IF explicit_id # None THEN explicit_id ELSE ref_activity_id

\* the exception raised before continue_conversation is called, if any
PreconditionError(explicit_id, reference, stored) ==
    IF reference = None /\ stored = None
    THEN Some(Err("No conversation reference available", None))
    ELSE IF ~ResolvedServiceUrl(reference, stored)
    THEN Some(Err("service_url can not be None", None))
    ELSE IF ChosenActivityId(explicit_id, RefActivityId(reference)) = None
    THEN Some(Err("No activity_id provided", None))
    ELSE None

\* a slip that would try the embedded id before the explicit one
CandidateIds_RefFirst(explicit_id, ref_activity_id) ==
    IF explicit_id # None /\ ref_activity_id # None /\ explicit_id # ref_activity_id
    THEN <<ref_activity_id, explicit_id>>
    ELSE <<ChosenActivityId(explicit_id, ref_activity_id), None>>

\* [primary_id, alternate_id] of logic
CandidateIds(explicit_id, ref_activity_id) ==
    IF explicit_id # None /\ ref_activity_id # None /\ explicit_id # ref_activity_id
    THEN <<explicit_id, ref_activity_id>>
    ELSE IF explicit_id = None /\ ref_activity_id # None
    THEN <<ref_activity_id, None>>
    ELSE IF explicit_id # None /\ ref_activity_id = None
    THEN <<explicit_id, None>>
    ELSE <<ChosenActivityId(explicit_id, ref_activity_id), None>>

\* the result dict returned after continue_conversation
Updated(explicit_id, ref_activity_id) ==
    [status |-> "updated", method |-> "bot_framework", activity_id |-> explicit_id,
     used_activity_id |-> ChosenActivityId(explicit_id, ref_activity_id),
     ref_activity_id |-> ref_activity_id, error |-> None]

References ==
    {None} \cup {Some([activityId |-> a, service_url |-> u]) :
                    a \in {None} \cup {Some(x) : x \in ActivityIds}, u \in BOOLEAN}

StoredReferences == {None} \cup {Some([service_url |-> u]) : u \in BOOLEAN}

InitUpdate ==
    /\ pc = "update"
    /\ activity_id \in {None} \cup {Some(x) : x \in ActivityIds}
    /\ conversation_reference \in References
    /\ STORED_REFERENCE \in StoredReferences
    /\ tried = <<>>
    /\ attempt_log = <<>>
    /\ last_err = None
    /\ update_result = None
    /\ DeliveryIdle
    /\ UtilIdle
    /\ DeadlineIdle
    /\ ComposeIdle
    /\ tasks = <<>> /\ full_template = None /\ extracted = None
    /\ task_template = None /\ table_sections = <<>>

\* the checks before continue_conversation, and continue_conversation reaching
\* logic or failing before it
StartUpdate ==
    /\ pc = "update"
    /\ LET err == PreconditionError(activity_id, conversation_reference, STORED_REFERENCE)
       IN  \/ /\ err # None
              /\ update_result' = Some(Raised(err[1]))
              /\ pc' = "update_done"
           \/ /\ err = None
              /\ update_result' = Some(Raised(Err("continue_conversation failed", None)))
              /\ pc' = "update_done"
           \/ /\ err = None
              /\ update_result' = update_result
              /\ pc' = "attempt1"
    /\ UNCHANGED <<activity_id, conversation_reference, STORED_REFERENCE, tried, attempt_log,
                   last_err, tasks, cardVars, deadlineVars, deliveryVars, utilVars>>

\* what ends logic after the loop: last_err raised, or a normal return
AfterLoop(err) ==
    IF err # None THEN Some(Raised(err[1]))
    ELSE Some(Updated(activity_id, RefActivityId(conversation_reference)))

\* one iteration of the loop over [primary_id, alternate_id]
AttemptStep ==
    /\ pc \in {"attempt1", "attempt2"}
    /\ LET k == IF pc = "attempt1" THEN 1 ELSE 2
           attempt_id == CandidateIds(activity_id, RefActivityId(conversation_reference))[k]
           after == IF k = 1 THEN "attempt2" ELSE "update_done"
       IN  IF attempt_id = None \/ \E q \in 1..Len(tried) : tried[q] = attempt_id[1]
           THEN \* continue
                /\ pc' = after
                /\ update_result' = IF k = 2 THEN AfterLoop(last_err) ELSE update_result
                /\ UNCHANGED <<tried, attempt_log, last_err>>
           ELSE /\ tried' = Append(tried, attempt_id[1])
                /\ \/ \* update_activity succeeded: logic returns
                      /\ attempt_log' = Append(attempt_log, [id |-> attempt_id[1], ok |-> TRUE])
                      /\ update_result' = Some(Updated(activity_id, RefActivityId(conversation_reference)))
                      /\ pc' = "update_done"
                      /\ UNCHANGED last_err
                   \/ \* update_activity raised
                      /\ attempt_log' = Append(attempt_log, [id |-> attempt_id[1], ok |-> FALSE])
                      /\ last_err' = Some(UpdateFailed(attempt_id[1]))
                      /\ pc' = after
                      /\ update_result' = IF k = 2 THEN AfterLoop(last_err') ELSE update_result
    /\ UNCHANGED <<activity_id, conversation_reference, STORED_REFERENCE, tasks, cardVars,
                   deadlineVars, deliveryVars, utilVars>>

NextUpdate == StartUpdate \/ AttemptStep

SpecUpdate == InitUpdate /\ [][NextUpdate]_vars

ExplicitAndEmbeddedDiffer ==
    /\ activity_id # None
    /\ RefActivityId(conversation_reference) # None
    /\ activity_id # RefActivityId(conversation_reference)

\* C8: given an explicit activity id and a reference embedding a different
\* activityId, when the update with the explicit id fails and the update with
\* the embedded id succeeds, the call succeeds and reports the embedded id as
\* used_activity_id.
C8_UsedIdIsEmbeddedId ==
    ( /\ pc = "update_done"
      /\ ExplicitAndEmbeddedDiffer
      /\ Len(attempt_log) = 2
      /\ attempt_log[1] = [id |-> activity_id[1], ok |-> FALSE]
      /\ attempt_log[2] = [id |-> RefActivityId(conversation_reference)[1], ok |-> TRUE] ) =>
        /\ update_result[1].status = "updated"
        /\ update_result[1].used_activity_id = RefActivityId(conversation_reference)

\* C9: when an explicit id and a different embedded id both exist,
\* update_activity is attempted with the explicit id first and with the
\* embedded id only if the first attempt failed; the attempts stop at the
\* first success; no id is attempted twice and at most two attempts are made;
\* if every attempt fails, the error of the last attempt is propagated.
C9_AttemptOrder ==
    ExplicitAndEmbeddedDiffer =>
        LET order == <<activity_id[1], RefActivityId(conversation_reference)[1]>>
        IN  /\ Len(attempt_log) <= 2
            /\ \A k \in 1..Len(attempt_log) : attempt_log[k].id = order[k]
            /\ \A k \in 1..(Len(attempt_log) - 1) : ~attempt_log[k].ok
            /\ (pc = "update_done" /\ attempt_log # <<>>) =>
                  IF attempt_log[Len(attempt_log)].ok
                  THEN update_result[1].status = "updated"
                  ELSE /\ Len(attempt_log) = 2
                       /\ update_result[1].status = "raised"
                       /\ update_result[1].error = Some(UpdateFailed(order[2]))

C9_Witness ==
    /\ pc = "update_done"
    /\ ExplicitAndEmbeddedDiffer
    /\ Len(attempt_log) = 2
    /\ ~attempt_log[1].ok /\ ~attempt_log[2].ok
    /\ update_result[1].status = "raised"

----------------------------------------------------------------------------
(* messaging_core: send_message_to_user_service, send_deadline_to_user_service *)

\* json_response(body, status): absent keys are "" or None
Response(status, method, error, bot_err, graph_err, message) ==
    [status |-> status, method |-> method, error |-> error,
     bot_error |-> bot_err, graph_error |-> graph_err, message |-> message]

\* email_to_assignee_map.get(email), defaulting to the first assignee
AssigneeFor(address) ==
    CASE address = "user1@example.com" -> "assignee-1"
      [] address = "user2@example.com" -> "assignee-2"
      [] OTHER -> "assignee-1"

\* [task for task in all_tasks_data if task.get("assignee") == user_assignee_id]
RECURSIVE TasksForAssignee(_, _)
TasksForAssignee(all_tasks_data, assignee) ==
    IF all_tasks_data = <<>> THEN <<>>
    ELSE (IF Head(all_tasks_data).assignee = assignee THEN <<Head(all_tasks_data)>> ELSE <<>>)
         \o TasksForAssignee(Tail(all_tasks_data), assignee)

\* build_deadline_card_from_sample_exm: None only when the template is missing;
\* the card shows the records of tasks_for_user (placeholders from the first
\* two, action data from all of them)
build_deadline_card_from_sample_exm(template, tasks_for_user) ==
    IF template = None THEN None
    ELSE Some([body |-> template[1].body, tasks_for_user |-> tasks_for_user])

ProgressItem(assignee, resolved) == [assignee |-> assignee, resolved |-> resolved]

\* results of query_progress_items: the built-in sample (one item per
\* assignee), and other lists
ProgressItemLists ==
    { <<ProgressItem("assignee-1", FALSE), ProgressItem("assignee-2", FALSE)>>,
      <<ProgressItem("assignee-2", FALSE)>>,
      <<ProgressItem("assignee-1", TRUE)>> }

\* data_source["tasks"]: the items the scheduler grouped for the user
DataSourceTaskLists ==
    { <<ProgressItem("assignee-1", FALSE)>>,
      <<ProgressItem("assignee-1", TRUE), ProgressItem("assignee-1", FALSE)>>,
      <<ProgressItem("assignee-2", FALSE)>> }

Emails == {"user1@example.com", "user2@example.com", "guest@example.com"}

DeliveryTaskLists ==
    { <<>>,
      <<TaskRecord(Label(<<"i", "s", "s", "u", "e">>), <<"Outage">>)>> }

DeliveryBaseTemplates ==
    { None, Some([body |-> <<Section(<<"Header">>, <<>>), FooterSection>>]) }

DeliveryFullTemplates ==
    { None,
      Some([body |-> <<HeaderNode, SampleRow, SampleDetails>>]),
      Some([body |-> <<Plain(<<"Banner">>)>>]) }

DeliveryDeadlineTemplates ==
    { None, Some([body |-> <<Section(<<"Deadline">>, <<>>), FooterSection>>]) }

InitDeliver ==
    /\ pc = "start"
    /\ service \in {"message", "deadline"}
    /\ email \in Emails
    /\ CONVERSATION_REFERENCE \in BOOLEAN
    /\ IF service = "message"
       THEN /\ card_data \in BOOLEAN
            /\ tasks \in DeliveryTaskLists
            /\ base_template \in DeliveryBaseTemplates
            /\ full_template \in DeliveryFullTemplates
            /\ progress_items = <<>>
            /\ deadline_template = None
       ELSE /\ card_data = FALSE
            /\ tasks \in DataSourceTaskLists
            /\ base_template = None
            /\ full_template = None
            /\ progress_items \in ProgressItemLists
            /\ deadline_template \in DeliveryDeadlineTemplates
    /\ adaptive_card = None
    /\ bot_error = None
    /\ graph_error = None
    /\ chat_id = None
    /\ sends = <<>>
    /\ response = None
    /\ UpdateIdle
    /\ UtilIdle
    /\ dynamic_card = None /\ extracted = None /\ task_template = None /\ table_sections = <<>>
    /\ card = None /\ visible = {} /\ lastActivated = NoRegion

Finish(resp) ==
    /\ response' = Some(resp)
    /\ pc' = "done"

deliveryInputs == <<service, email, card_data, progress_items, CONVERSATION_REFERENCE, tasks,
                    base_template, full_template, deadline_template>>
deliveryFrame == <<extracted, task_template, table_sections, dynamic_card, card, visible,
                   lastActivated, updateVars, utilVars>>

\* send_message_to_user_service up to the channel chain: data source, card,
\* token and user lookup
PrepareMessage ==
    /\ pc = "start" /\ service = "message"
    /\ \/ \* no card_data and sampleData.json missing
          /\ ~card_data
          /\ Finish(Response(404, "", "No input data supplied and sampleData.json not found.",
                             None, None, ""))
          /\ UNCHANGED adaptive_card
       \/ \E lookup \in {"found", "not_found", "raised"} :
             LET built == build_dynamic_card_with_tasks(base_template, full_template, [tasks |-> tasks])
             IN  /\ adaptive_card' = built
                 /\ IF built = None
                    THEN Finish(Response(500, "", "Failed to build dynamic card with tasks", None, None, ""))
                    ELSE CASE lookup = "raised" ->
                                 Finish(Response(500, "", "token or lookup exception", None, None, ""))
                           [] lookup = "not_found" ->
                                 Finish(Response(404, "", "User not found", None, None, ""))
                           [] OTHER -> pc' = "primary" /\ UNCHANGED response
    /\ UNCHANGED <<deliveryInputs, deliveryFrame, bot_error, graph_error, chat_id, sends>>

\* send_deadline_to_user_service up to the channel chain: progress items,
\* token and user lookup, the user's tasks, the card
PrepareDeadline ==
    /\ pc = "start" /\ service = "deadline"
    /\ \E lookup \in {"found", "not_found", "raised"} :
          LET tasks_data == TasksForAssignee(progress_items, AssigneeFor(email))
              built == build_deadline_card_from_sample_exm(deadline_template, tasks_data)
          IN  CASE lookup = "raised" ->
                      /\ Finish(Response(500, "", "token or lookup exception", None, None, ""))
                      /\ UNCHANGED adaptive_card
                [] lookup = "not_found" ->
                      /\ Finish(Response(404, "", "User not found", None, None, ""))
                      /\ UNCHANGED adaptive_card
                [] lookup = "found" /\ tasks_data = <<>> ->
                      /\ Finish(Response(200, "", "", None, None, "No deadline tasks found for user"))
                      /\ UNCHANGED adaptive_card
                [] OTHER ->
                      /\ adaptive_card' = built
                      /\ IF built = None
                         THEN Finish(Response(500, "", "Failed to build deadline card from template",
                                              None, None, ""))
                         ELSE pc' = "primary" /\ UNCHANGED response
    /\ UNCHANGED <<deliveryInputs, deliveryFrame, bot_error, graph_error, chat_id, sends>>

\* a Bot Framework attempt made whether or not a reference is stored
TryPrimary_NoReferenceCheck ==
    /\ pc = "primary"
    /\ sends' = Append(sends, "bot_framework")
    /\ pc' = "primary_sent"
    /\ UNCHANGED <<deliveryInputs, deliveryFrame, adaptive_card, bot_error, graph_error,
                   chat_id, response>>

\* the Bot Framework attempt up to send_activity: skipped without a stored
\* reference, else the send reaches the user or an exception is raised first
TryPrimary ==
    /\ pc = "primary"
    /\ IF CONVERSATION_REFERENCE
       THEN \/ /\ sends' = Append(sends, "bot_framework")
               /\ pc' = "primary_sent"
               /\ UNCHANGED bot_error
            \/ /\ bot_error' = Some("send via Bot Framework failed")
               /\ pc' = "fallback"
               /\ UNCHANGED sends
       ELSE /\ bot_error' = Some("No conversation reference")
            /\ pc' = "fallback"
            /\ UNCHANGED sends
    /\ UNCHANGED <<deliveryInputs, deliveryFrame, adaptive_card, graph_error, chat_id, response>>

\* the rest of the send_message callback and of create_conversation after
\* send_activity returned: the result is returned, or an exception is raised
FinishPrimary ==
    /\ pc = "primary_sent"
    /\ \/ /\ Finish(Response(200, "bot_framework", "", None, None, ""))
          /\ UNCHANGED bot_error
       \/ /\ bot_error' = Some("exception after send_activity")
          /\ pc' = "fallback"
          /\ UNCHANGED response
    /\ UNCHANGED <<deliveryInputs, deliveryFrame, adaptive_card, graph_error, chat_id, sends>>

\* get_or_create_chat_with_user: a chat id, None, or an exception
FallbackChat ==
    /\ pc = "fallback"
    /\ \/ /\ chat_id' = Some("chat-1")
          /\ pc' = "graph_send"
          /\ UNCHANGED <<graph_error, response>>
       \/ /\ Finish(Response(500, "", "Could not find or create chat for user", None, None, ""))
          /\ UNCHANGED <<graph_error, chat_id>>
       \/ /\ graph_error' = Some("chat lookup failed")
          /\ Finish(Response(500, "", "Both Bot Framework and Graph API approaches failed.",
                             bot_error, graph_error', ""))
          /\ UNCHANGED chat_id
    /\ UNCHANGED <<deliveryInputs, deliveryFrame, adaptive_card, bot_error, sends>>

\* send_adaptive_card_to_chat: the message is created, or an exception is raised
GraphSend ==
    /\ pc = "graph_send"
    /\ \/ /\ sends' = Append(sends, "graph_api")
          /\ Finish(Response(200, "graph_api", "", None, None, ""))
          /\ UNCHANGED graph_error
       \/ /\ graph_error' = Some("graph send failed")
          /\ Finish(Response(500, "", "Both Bot Framework and Graph API approaches failed.",
                             bot_error, graph_error', ""))
          /\ UNCHANGED sends
    /\ UNCHANGED <<deliveryInputs, deliveryFrame, adaptive_card, bot_error, chat_id>>

NextDeliver ==
    \/ PrepareMessage
    \/ PrepareDeadline
    \/ TryPrimary
    \/ FinishPrimary
    \/ FallbackChat
    \/ GraphSend

SpecDeliver == InitDeliver /\ [][NextDeliver]_vars

\* C6: when the primary channel fails or is skipped and the fallback channel
\* then succeeds, the service returns a success result whose method names the
\* fallback channel and which also carries the primary channel's error.
C6_FallbackSuccessCarriesPrimaryError ==
    (pc = "done" /\ bot_error # None /\ sends # <<>> /\ sends[Len(sends)] = "graph_api") =>
        /\ response[1].status = 200
        /\ response[1].method = "graph_api"
        /\ response[1].bot_error = bot_error

\* C7: every failure result returned after the channel chain was entered
\* (primary tried or skipped, fallback failed in any way, including failing to
\* find or create the chat) holds the error of every channel tried: the Bot
\* Framework error and the Graph error.
C7_FailureCarriesEveryError ==
    (pc = "done" /\ bot_error # None /\ response[1].status >= 400) =>
        /\ response[1].bot_error = bot_error
        /\ graph_error # None => response[1].graph_error = graph_error

----------------------------------------------------------------------------
(* cards/utils.populate_placeholders called on its own *)

\* re.sub stops at the first token whose replacer raises: some token of the
\* string has a bracket index that int() rejects
RECURSIVE StringRaises(_)
StringRaises(str) ==
    IF str = <<>> THEN FALSE
    ELSE LET close == FirstIndexOf(str, "}}")
         IN  IF str[1] = "{{" /\ close > 2
             THEN \/ PlaceholderRaises(SubSeq(str, 2, close - 1))
                  \/ StringRaises(SubSeq(str, close + 1, Len(str)))
             ELSE StringRaises(Tail(str))

\* the exception leaves replace_placeholders and populate_placeholders, which
\* have no handler around the walk
PopulateRaises(card_template) ==
    \E k \in 1..Len(card_template.body) : \E str \in Strings(card_template.body[k]) : StringRaises(str)

\* the template object after the call, had the walk written into its argument
TemplateAfterPopulate_InPlace(card_template, data) == populate_placeholders(card_template, data)

\* the template object after the call: replace_placeholders builds a new dict
\* or list at every level and replace_icon_names works on that new tree
TemplateAfterPopulate(card_template, data) == card_template

Token(path) == <<"{{">> \o path \o <<"}}">>

\* tokens that resolve, and tokens that fail with KeyError, IndexError,
\* TypeError and ValueError
PopulateTokens ==
    { TaskToken(0, ".title"), TaskToken(1, ".title"), TaskToken(0, ".type"),
      TaskToken(0, ".dueDate"),
      Token(<<"meeting", ".title">>),
      Token(<<"tasks[", Digit(0), "]", ".title", ".first">>),
      Token(<<"tasks[", "i", "]", ".title">>),
      Token(<<"tasks[", "]", ".title">>) }

PopulateTemplates ==
    { [body |-> <<Plain(a), Plain(<<"Due ">> \o b \o <<".">>)>>] : a \in PopulateTokens, b \in PopulateTokens }

PopulateTaskLists ==
    { <<>>,
      <<TaskRecord(Label(<<"i", "s", "s", "u", "e">>), <<"Outage">>)>>,
      <<TaskRecord(None, <<"Plan">>), TaskRecord(Label(<<"i", "n", "f", "o">>), <<"Budget">>)>> }

InitPopulate ==
    /\ pc = "populate"
    /\ template_arg \in {Some(t) : t \in PopulateTemplates}
    /\ tasks \in PopulateTaskLists
    /\ populated_card = None
    /\ updated_card = FALSE
    /\ task_type_arg = None /\ icon_names = None /\ task_arg = None /\ is_completed = None
    /\ SchedulerIdle
    /\ full_template = None /\ extracted = None /\ task_template = None /\ table_sections = <<>>
    /\ ComposeIdle
    /\ DeadlineIdle
    /\ DeliveryIdle
    /\ UpdateIdle

Populate ==
    /\ pc = "populate"
    /\ LET data == [tasks |-> tasks]
       IN  /\ populated_card' =
                 IF PopulateRaises(template_arg[1])
                 THEN Some([raised |-> TRUE, card |-> [body |-> <<>>]])
                 ELSE Some([raised |-> FALSE, card |-> populate_placeholders(template_arg[1], data)])
           /\ template_arg' = Some(TemplateAfterPopulate(template_arg[1], data))
    /\ pc' = "populated"
    /\ UNCHANGED <<tasks, cardVars, deadlineVars, deliveryVars, updateVars, updated_card,
                   task_type_arg, icon_names, task_arg, is_completed, schedulerVars>>

NextPopulate == Populate

SpecPopulate == InitPopulate /\ [][NextPopulate]_vars

\* C11: populate_placeholders never raises: every token whose path cannot be
\* resolved (missing key, wrong type, out-of-range index, bracket index that
\* is not a number) stays in the output as its literal text and every other
\* token of the document is resolved.
C11_PopulateNeverRaises ==
    pc = "populated" =>
        /\ ~populated_card[1].raised
        /\ populated_card[1].card = populate_placeholders(template_arg[1], [tasks |-> tasks])

\* the card of send_message_to_user_service cannot be built: a template is
\* not loaded or no fragment is extracted
NoCardSources ==
    \/ base_template = None
    \/ full_template = None
    \/ extract_task_section_template(full_template[1]) = None

\* C12: if a template cannot be loaded or the table fragment cannot be
\* extracted, build_dynamic_card_with_tasks returns no card and
\* send_message_to_user_service returns an error result without attempting a
\* send on any channel.
C12_NoCardNoSend ==
    (service = "message" /\ NoCardSources) =>
        /\ build_dynamic_card_with_tasks(base_template, full_template, [tasks |-> tasks]) = None
        /\ adaptive_card = None
        /\ pc \in {"start", "done"}
        /\ sends = <<>> /\ bot_error = None /\ graph_error = None /\ chat_id = None
        /\ pc = "done" => response[1].status >= 400 /\ response[1].method = ""

C12_Witness ==
    /\ service = "message" /\ pc = "done" /\ card_data
    /\ base_template # None /\ full_template # None
    /\ HasClaimedTable(full_template[1])
    /\ response[1].error = "Failed to build dynamic card with tasks"

----------------------------------------------------------------------------
(* card_update_service.update_card_service (chat_id is its argument) *)

\* a json_response of update_card_service
UpdateResponse(http, status, method, message_id, error) ==
    [http |-> http, status |-> status, method |-> method, message_id |-> message_id,
     error |-> error]

\* a Graph result that claims an in-place update
update_card_via_graph_api_Updated(message_id) ==
    UpdateResponse(200, "updated", "graph_api", message_id, "")

\* update_card_via_graph_api after send_adaptive_card_to_chat returned the
\* created message
update_card_via_graph_api(message_id) ==
    UpdateResponse(200, "sent_new_message", "graph_api", message_id, "")

\* the two modules that define update_card_service
UpdateModules == {"card_update_service", "message_service"}

\* the value update_card_service returns when neither the activity_id branch
\* nor the chat_id branch returned: message_service ends with a 400 response,
\* card_update_service ends after the chat_id branch and returns None
NoTargetResponse(module) ==
    IF module = "message_service"
    THEN Some(UpdateResponse(400, "", "", None, "Provide 'activity_id' or 'chat_id'"))
    ELSE None

InitUpdateService ==
    /\ pc = "service"
    /\ updated_card \in BOOLEAN
    /\ activity_id \in {None} \cup {Some(x) : x \in ActivityIds}
    /\ chat_id \in {None, Some("chat-1")}
    /\ conversation_reference \in References
    /\ STORED_REFERENCE \in StoredReferences
    /\ tried = <<>> /\ attempt_log = <<>> /\ last_err = None /\ update_result = None
    /\ service \in UpdateModules /\ email = "" /\ card_data = FALSE /\ progress_items = <<>>
    /\ CONVERSATION_REFERENCE = FALSE /\ adaptive_card = None
    /\ bot_error = None /\ graph_error = None /\ sends = <<>> /\ response = None
    /\ template_arg = None /\ populated_card = None
    /\ task_type_arg = None /\ icon_names = None /\ task_arg = None /\ is_completed = None
    /\ SchedulerIdle
    /\ DeadlineIdle
    /\ ComposeIdle
    /\ tasks = <<>> /\ full_template = None /\ extracted = None
    /\ task_template = None /\ table_sections = <<>>

serviceFrame == <<tasks, cardVars, deadlineVars, updateVars, utilVars, service, email, card_data,
                  progress_items, CONVERSATION_REFERENCE, adaptive_card, bot_error,
                  graph_error, chat_id>>

\* load_updated_tasks_card, then the choice of the Bot Framework update
LoadUpdatedCard ==
    /\ pc = "service"
    /\ IF ~updated_card
       THEN /\ response' = Some(UpdateResponse(404, "", "", None, "Updated card template not found."))
            /\ pc' = "service_done"
       ELSE /\ pc' = IF activity_id # None THEN "update" ELSE "service_fallback"
            /\ UNCHANGED response
    /\ UNCHANGED <<serviceFrame, sends>>

\* update_card_via_bot_framework returned or raised
AfterUpdate ==
    /\ pc = "update_done"
    /\ IF update_result[1].status = "updated"
       THEN /\ response' = Some(UpdateResponse(200, "updated", "bot_framework", None, ""))
            /\ pc' = "service_done"
       ELSE IF chat_id = None
       THEN /\ response' = Some(UpdateResponse(400, "", "", None, "Bot Framework update failed"))
            /\ pc' = "service_done"
       ELSE /\ pc' = "service_fallback"
            /\ UNCHANGED response
    /\ UNCHANGED <<serviceFrame, sends>>

\* the Graph fallback: token, send_adaptive_card_to_chat, result
GraphFallback ==
    /\ pc = "service_fallback"
    /\ pc' = "service_done"
    /\ IF chat_id = None
       THEN /\ response' = NoTargetResponse(service)
            /\ UNCHANGED sends
       ELSE \/ /\ sends' = Append(sends, "graph_api")
               /\ response' = Some(update_card_via_graph_api(Some("msg-1")))
            \/ /\ response' = Some(UpdateResponse(500, "", "", None, "Graph API failed to send updated card"))
               /\ UNCHANGED sends
    /\ UNCHANGED serviceFrame

NextUpdateService ==
    \/ LoadUpdatedCard
    \/ StartUpdate
    \/ AttemptStep
    \/ AfterUpdate
    \/ GraphFallback

SpecUpdateService == InitUpdateService /\ [][NextUpdateService]_vars

C28_CardFromDataSource ==
    (service = "deadline" /\ adaptive_card # None) =>
        adaptive_card[1].tasks_for_user = tasks

\* C25: update_card_service called without an explicit activity id but with a
\* conversation reference that embeds an activityId calls the Bot Framework
\* replacement first, with the embedded id, before any new Graph message.
C25_EmbeddedIdTriedFirst ==
    (/\ pc = "service_done" /\ updated_card
     /\ activity_id = None /\ RefActivityId(conversation_reference) # None) =>
        /\ update_result # None
        /\ sends # <<>> => attempt_log # <<>>

\* C26: update_card_service called with neither an activity id nor a chat id
\* sends nothing and returns an error response; on every path it returns a
\* response; card_update_service and message_service return the same result
\* for the same inputs.
C26_NoTargetExplicitError ==
    pc = "service_done" =>
        /\ response # None
        /\ (updated_card /\ activity_id = None /\ chat_id = None) =>
              /\ sends = <<>>
              /\ response[1].http >= 400
              /\ \A m \in UpdateModules : response = NoTargetResponse(m)

\* C14: every HTTP 200 response of send_message_to_user_service or
\* send_deadline_to_user_service names the delivery method used
\* ('bot_framework' or 'graph_api').
C14_SuccessNamesMethod ==
    (pc = "done" /\ response[1].status = 200) =>
        response[1].method \in {"bot_framework", "graph_api"}

\* some sibling list holds a ColumnSet followed by an element passing the
\* extractor's row test
HasHeaderRowPair(card_template) ==
    \E l \in ListsUnder(card_template.body) :
        \E i, j \in 1..Len(l) : i < j /\ l[i].type = "ColumnSet" /\ IsFirstTaskRow(l[j])

\* C15: for every full template with no header+row pair satisfying the
\* extractor's predicate, extract_task_section_template returns None; it
\* never returns a fragment whose header or row is missing and never
\* synthesizes a fallback fragment.
C15_NoMatchReturnsNone ==
    pc = "extracted" =>
        /\ ~HasHeaderRowPair(full_template[1]) => extracted = None
        /\ extracted # None =>
              /\ extracted[1].table_header.type = "ColumnSet"
              /\ IsFirstTaskRow(extracted[1].task_row_template)

C15_Witness ==
    /\ pc = "extracted"
    /\ full_template[1].body # <<>>
    /\ ~HasHeaderRowPair(full_template[1])
    /\ extracted = None

----------------------------------------------------------------------------
(* get_icon_for_task_type: the copies of cards/utils, message_service and
   deadline_service *)

\* message_service.get_icon_for_task_type
message_service_get_icon_for_task_type(task_type) ==
    IF task_type = None THEN "CheckmarkStarburst"
    ELSE LET key == Lower(Strip(task_type[1]))
         IN  CASE key = <<"a", "g", "r", "e", "e", "m", "e", "n", "t">> -> "CheckmarkStarburst"
               [] key = <<"v", "e", "r", "e", "i", "n", "b", "a", "r", "u", "n", "g">> -> "CheckmarkStarburst"
               [] key = <<"d", "e", "c", "i", "s", "i", "o", "n">> -> "Diamond"
               [] key = <<"d", "e", "c", "i", "s", "o", "n">> -> "Diamond"
               [] key = <<"d", "e", "c", "i", "s", "o", "n", "j">> -> "Diamond"
               [] key = <<"e", "n", "t", "s", "c", "h", "e", "i", "d", "u", "n", "g">> -> "Diamond"
               [] key = <<"i", "s", "s", "u", "e">> -> "Info"
               [] key = <<"i", "n", "f", "o">> -> "Info"
               [] OTHER -> "CheckmarkStarburst"

\* deadline_service.get_icon_for_task_type
deadline_service_get_icon_for_task_type(task_type) ==
    IF task_type = None THEN "CheckmarkStarburst"
    ELSE LET key == Lower(Strip(task_type[1]))
         IN  CASE key = <<"a", "g", "r", "e", "e", "m", "e", "n", "t">> -> "CheckmarkStarburst"
               [] key = <<"v", "e", "r", "e", "i", "n", "b", "a", "r", "u", "n", "g">> -> "CheckmarkStarburst"
               [] key = <<"d", "e", "c", "i", "s", "i", "o", "n">> -> "Diamond"
               [] key = <<"d", "e", "c", "i", "s", "o", "n">> -> "Diamond"
               [] key = <<"d", "e", "c", "i", "s", "o", "n", "j">> -> "Diamond"
               [] key = <<"e", "n", "t", "s", "c", "h", "e", "i", "d", "u", "n", "g">> -> "Diamond"
               [] key = <<"i", "s", "s", "u", "e">> -> "Info"
               [] key = <<"i", "n", "f", "o">> -> "Info"
               [] OTHER -> "CheckmarkStarburst"

UpperChar(c) ==
    IF \E k \in 1..Len(LowerChars) : LowerChars[k] = c
    THEN UpperChars[CHOOSE k \in 1..Len(LowerChars) : LowerChars[k] = c]
    ELSE c

\* spellings of one word that differ in case and surrounding blanks
Variants(w) ==
    LET upper == [k \in 1..Len(w) |-> UpperChar(w[k])]
        capital == [k \in 1..Len(w) |-> IF k = 1 THEN UpperChar(w[k]) ELSE w[k]]
    IN  {w, upper, capital, <<" ">> \o w, w \o <<" ">>, <<" ", " ">> \o capital \o <<" ">>}

KnownWords ==
    { <<"a", "g", "r", "e", "e", "m", "e", "n", "t">>,
      <<"v", "e", "r", "e", "i", "n", "b", "a", "r", "u", "n", "g">>,
      <<"d", "e", "c", "i", "s", "i", "o", "n">>,
      <<"d", "e", "c", "i", "s", "o", "n">>,
      <<"d", "e", "c", "i", "s", "o", "n", "j">>,
      <<"e", "n", "t", "s", "c", "h", "e", "i", "d", "u", "n", "g">>,
      <<"i", "s", "s", "u", "e">>,
      <<"i", "n", "f", "o">> }

UnknownWords ==
    { <<"t", "a", "s", "k">>,
      <<"d", "e", "c", "i", "s", "i", "o", "n", "s">>,
      <<"i", "n", "f">>,
      <<"7">>,
      <<>> }

IconLabels == UNION {Variants(w) : w \in KnownWords \cup UnknownWords}

InitIcon ==
    /\ pc = "icon"
    /\ task_type_arg \in {None} \cup {Some(l) : l \in IconLabels}
    /\ icon_names = None
    /\ updated_card = FALSE /\ template_arg = None /\ populated_card = None
    /\ task_arg = None /\ is_completed = None
    /\ SchedulerIdle
    /\ tasks = <<>> /\ full_template = None /\ extracted = None
    /\ task_template = None /\ table_sections = <<>>
    /\ ComposeIdle
    /\ DeadlineIdle
    /\ DeliveryIdle
    /\ UpdateIdle

GetIcon ==
    /\ pc = "icon"
    /\ icon_names' = Some([utils |-> get_icon_for_task_type(task_type_arg),
                           message_service |-> message_service_get_icon_for_task_type(task_type_arg),
                           deadline_service |-> deadline_service_get_icon_for_task_type(task_type_arg)])
    /\ pc' = "icon_done"
    /\ UNCHANGED <<tasks, cardVars, deadlineVars, deliveryVars, updateVars, updated_card,
                   template_arg, populated_card, task_type_arg, task_arg, is_completed,
                   schedulerVars>>

NextIcon == GetIcon

SpecIcon == InitIcon /\ [][NextIcon]_vars

\* C16: get_icon_for_task_type is total and insensitive to case and
\* surrounding whitespace: 'Decision', ' decision ' and 'decison' map to the
\* same icon, None and every unknown label map to the default (agreement)
\* icon, and the three copies return the same icon for every input.
C16_IconMappingTotalInsensitive ==
    pc = "icon_done" =>
        LET icon == icon_names[1].utils
        IN  /\ icon \in {"CheckmarkStarburst", "Diamond", "Info"}
            /\ icon_names[1].message_service = icon
            /\ icon_names[1].deadline_service = icon
            /\ task_type_arg = None => icon = "CheckmarkStarburst"
            /\ task_type_arg # None =>
                  /\ \A w \in KnownWords \cup UnknownWords :
                        task_type_arg[1] \in Variants(w) =>
                            \A v \in Variants(w) : get_icon_for_task_type(Some(v)) = icon
                  /\ \A w \in UnknownWords :
                        task_type_arg[1] \in Variants(w) => icon = "CheckmarkStarburst"
            /\ get_icon_for_task_type(Some(<<"D", "e", "c", "i", "s", "i", "o", "n">>)) = "Diamond"
            /\ get_icon_for_task_type(Some(<<" ", "d", "e", "c", "i", "s", "i", "o", "n", " ">>)) = "Diamond"
            /\ get_icon_for_task_type(Some(<<"d", "e", "c", "i", "s", "o", "n">>)) = "Diamond"
            /\ get_icon_for_task_type(Some(<<"a", "g", "r", "e", "e", "m", "e", "n", "t">>)) = "CheckmarkStarburst"

C16_Witness ==
    /\ pc = "icon_done"
    /\ task_type_arg = Some(<<" ", " ", "D", "e", "c", "i", "s", "o", "n", " ">>)
    /\ icon_names[1].utils = "Diamond"
    /\ icon_names[1].message_service = "Diamond"
    /\ icon_names[1].deadline_service = "Diamond"

----------------------------------------------------------------------------
(* _is_task_completed: the copies of message_service and deadline_service.
   A field of the record is absent, a bool, a string, or another value given
   by the text str() makes of it. *)

Absent == [kind |-> "absent", b |-> FALSE, s |-> <<>>]
Bool(b) == [kind |-> "bool", b |-> b, s |-> IF b THEN <<"T", "r", "u", "e">> ELSE <<"F", "a", "l", "s", "e">>]
Str(s) == [kind |-> "str", b |-> FALSE, s |-> s]
Other(s) == [kind |-> "other", b |-> FALSE, s |-> s]

\* str(task.get('status', ''))
StatusText(field) == IF field.kind = "absent" THEN <<>> ELSE field.s

\* the set literal {'done', 'completed', 'closed', 'resolved'}
CompletedWords ==
    { <<"d", "o", "n", "e">>, <<"c", "o", "m", "p", "l", "e", "t", "e", "d">>, <<"c", "l", "o", "s", "e", "d">>, <<"r", "e", "s", "o", "l", "v", "e", "d">> }

\* a check that reads the status text before the boolean flags
is_task_completed_StatusFirst(task_record) ==
    IF ~task_record.isdict THEN FALSE
    ELSE IF Lower(Strip(StatusText(task_record.status))) \in CompletedWords THEN TRUE
    ELSE IF task_record.completed.kind = "bool" THEN task_record.completed.b
    ELSE IF task_record.isDone.kind = "bool" THEN task_record.isDone.b
    ELSE FALSE

\* message_service._is_task_completed
is_task_completed(task_record) ==
    IF ~task_record.isdict THEN FALSE
    ELSE IF task_record.completed.kind = "bool" THEN task_record.completed.b
    ELSE IF task_record.isDone.kind = "bool" THEN task_record.isDone.b
    ELSE Lower(Strip(StatusText(task_record.status))) \in CompletedWords

\* deadline_service._is_task_completed
deadline_service_is_task_completed(task_record) ==
    IF ~task_record.isdict THEN FALSE
    ELSE IF task_record.completed.kind = "bool" THEN task_record.completed.b
    ELSE IF task_record.isDone.kind = "bool" THEN task_record.isDone.b
    ELSE Lower(Strip(StatusText(task_record.status))) \in CompletedWords

OtherStatusWords ==
    { <<"o", "p", "e", "n">>, <<>>, <<"d", "o", "n", "e">> \o <<".">>, <<"n", "o", "t", " ">> \o <<"d", "o", "n", "e">> }

FlagValues == {Absent, Bool(TRUE), Bool(FALSE), Other(<<"1">>)}

StatusValues ==
    {Absent, Other(<<"N", "o", "n", "e">>), Bool(TRUE)}
    \cup {Str(v) : v \in UNION {Variants(w) : w \in CompletedWords \cup OtherStatusWords}}

\* input that is not a dict, and dicts
CompletionInputs ==
    {[isdict |-> FALSE, completed |-> Absent, isDone |-> Absent, status |-> Absent]}
    \cup {[isdict |-> TRUE, completed |-> c, isDone |-> d, status |-> st] :
             c \in FlagValues, d \in FlagValues, st \in StatusValues}

InitCompleted ==
    /\ pc = "completed"
    /\ task_arg \in {Some(t) : t \in CompletionInputs}
    /\ is_completed = None
    /\ updated_card = FALSE /\ template_arg = None /\ populated_card = None
    /\ task_type_arg = None /\ icon_names = None
    /\ SchedulerIdle
    /\ tasks = <<>> /\ full_template = None /\ extracted = None
    /\ task_template = None /\ table_sections = <<>>
    /\ ComposeIdle
    /\ DeadlineIdle
    /\ DeliveryIdle
    /\ UpdateIdle

IsTaskCompleted ==
    /\ pc = "completed"
    /\ is_completed' = Some([message_service |-> is_task_completed(task_arg[1]),
                             deadline_service |-> deadline_service_is_task_completed(task_arg[1])])
    /\ pc' = "completed_done"
    /\ UNCHANGED <<tasks, cardVars, deadlineVars, deliveryVars, updateVars, updated_card,
                   template_arg, populated_card, task_type_arg, icon_names, task_arg,
                   schedulerVars>>

NextCompleted == IsTaskCompleted

SpecCompleted == InitCompleted /\ [][NextCompleted]_vars

\* the boolean completion flags of a record
BoolFlags(task_record) ==
    {f \in {task_record.completed, task_record.isDone} : f.kind = "bool"}

\* C17: _is_task_completed returns true exactly when the record's boolean
\* completion flag is true or, when the record has no boolean completion flag,
\* its status text trimmed and lower-cased is one of done, completed, closed,
\* resolved; false for everything else, including records without these
\* fields, a false flag combined with a 'done' status, and input that is not
\* a record.  (Two boolean flags that disagree are left open.)
C17_CompletedExactly ==
    pc = "completed_done" =>
        LET t == task_arg[1]
            flags == BoolFlags(t)
            done_status == /\ t.status.kind = "str"
                           /\ \E w \in CompletedWords : t.status.s \in Variants(w)
        IN  \A copy \in {is_completed[1].message_service, is_completed[1].deadline_service} :
                /\ ~t.isdict => copy = FALSE
                /\ (t.isdict /\ flags = {}) => (copy <=> done_status)
                /\ (t.isdict /\ Cardinality(flags) = 1) => (copy <=> \A f \in flags : f.b)

C17_Witness ==
    /\ pc = "completed_done"
    /\ task_arg[1].isdict
    /\ task_arg[1].completed = Bool(FALSE)
    /\ task_arg[1].isDone = Absent
    /\ task_arg[1].status = Str(<<"d", "o", "n", "e">>)
    /\ is_completed[1].message_service = FALSE
    /\ is_completed[1].deadline_service = FALSE

----------------------------------------------------------------------------
(* populate_placeholders and generate_task_sections as the operations that
   receive caller-owned trees *)

InitOperations == InitPopulate \/ InitMultiply

NextOperations ==
    \/ Populate
    \/ Generate

SpecOperations == InitOperations /\ [][NextOperations]_vars

C19_ChannelOrder ==
    LET graph_attempted == pc \in {"fallback", "graph_send"} \/ chat_id # None
                           \/ graph_error # None \/ "graph_api" \in SeqToSet(sends)
        bot_attempted == pc = "primary_sent" \/ "bot_framework" \in SeqToSet(sends)
                         \/ bot_error \notin {None, Some("No conversation reference")}
    IN  /\ bot_attempted => CONVERSATION_REFERENCE
        /\ ~CONVERSATION_REFERENCE =>
              bot_error \in {None, Some("No conversation reference")}
        /\ graph_attempted => bot_error # None
        /\ (pc = "done" /\ response[1].method = "bot_framework") =>
              /\ ~graph_attempted
              /\ sends = <<"bot_framework">>
        /\ (pc = "done" /\ response[1].status = 404) =>
              /\ ~bot_attempted /\ ~graph_attempted
              /\ sends = <<>> /\ bot_error = None
        /\ Len(sends) <= 2
        /\ \A k \in 1..(Len(sends) - 1) : sends[k] = "bot_framework" /\ sends[k + 1] = "graph_api"

C19_Witness ==
    /\ pc = "done"
    /\ CONVERSATION_REFERENCE
    /\ bot_error = Some("send via Bot Framework failed")
    /\ sends = <<"graph_api">>
    /\ response[1].method = "graph_api"

\* C20: in one delivery call the recipient receives the card at most once:
\* once send_activity of the Bot Framework channel has succeeded, no Graph
\* message is sent by the same call, even if a later step of the primary path
\* fails.
C20_AtMostOnce ==
    /\ Len(sends) <= 1
    /\ "bot_framework" \in SeqToSet(sends) => "graph_api" \notin SeqToSet(sends)

----------------------------------------------------------------------------
(* The tasks-assigned rows as the renderer runs them: the sections of
   generate_task_sections, details hidden at first *)

\* positions of the rows among the generated sections (the header is first)
SectionRows(sections) ==
    {k \in 2..Len(sections) : HasSelectAction(sections[k])}

\* the user clicks the row at position k of the generated sections
ActivateTaskRow(k) ==
    /\ pc = "generated"
    /\ k \in SectionRows(table_sections)
    /\ visible' = ApplyToggle(visible, table_sections[k].selectAction.targetElements)
    /\ lastActivated' = [kind |-> "row", path |-> <<k>>]
    /\ UNCHANGED <<pc, tasks, cardVars, deadline_template, card, channelVars>>

NextDisclose ==
    \/ Generate
    \/ \E k \in 1..(2 * MaxTasks + 1) : ActivateTaskRow(k)

SpecDisclose == InitMultiply /\ [][NextDisclose]_vars

\* C21: for N >= 2 tasks, with the rows and details generate_task_sections
\* produces, at most one details container is visible after any sequence of
\* row activations: activating a row shows its own details and hides every
\* other details container.
C21_TasksAssignedExclusive ==
    (pc = "generated" /\ Len(tasks) >= 2) =>
        /\ Cardinality(visible) <= 1
        /\ lastActivated.kind = "row" =>
              visible = {table_sections[lastActivated.path[1]].selectAction.targetElements[1].elementId}

----------------------------------------------------------------------------
(* tasks_assigned.inject_task_sections_into_card called on its own:
   base_template is the card as it was passed in, dynamic_card the card
   returned *)

InjectElements ==
    { Plain(<<"Title">>), Section(<<"Intro">>, <<>>), FooterSection,
      Section(<<"Actions">>, <<Plain(<<"Hint">>), Node("ActionSet", <<>>, <<>>, "", NoAction, <<>>)>>) }

InjectBodies == SeqsUpTo(InjectElements, MaxSiblings)

InjectSections ==
    { <<>>, <<HeaderNode>>, <<HeaderNode, SampleRow>>, <<HeaderNode, SampleRow, SampleDetails>> }

InitInject ==
    /\ pc = "inject"
    /\ base_template \in {Some([body |-> b]) : b \in InjectBodies}
    /\ table_sections \in InjectSections
    /\ dynamic_card = None
    /\ tasks = <<>> /\ full_template = None /\ extracted = None /\ task_template = None
    /\ DeadlineIdle
    /\ ChannelsIdle

Inject ==
    /\ pc = "inject"
    /\ dynamic_card' = Some(inject_task_sections_into_card(base_template[1], table_sections))
    /\ pc' = "injected"
    /\ UNCHANGED <<tasks, full_template, extracted, task_template, table_sections,
                   base_template, deadlineVars, channelVars>>

NextInject == Inject

SpecInject == InitInject /\ [][NextInject]_vars

\* the body with the sections placed as one block after its first p elements
Splice(body, p, sections) ==
    SubSeq(body, 1, p) \o sections \o SubSeq(body, p + 1, Len(body))

\* C22: the sections are inserted immediately before the first footer-marked
\* body element, also when more than one element is footer-marked; when no
\* element is footer-marked they are inserted immediately before the final
\* body element.
C22_BeforeFirstFooter ==
    (pc = "injected" /\ base_template[1].body # <<>>) =>
        LET body == base_template[1].body
            marked == {i \in 1..Len(body) : IsFooterMarked(body[i])}
            p == IF marked = {} THEN Len(body) - 1
                 ELSE (CHOOSE i \in marked : \A q \in marked : i <= q) - 1
        IN  dynamic_card[1].body = Splice(body, p, table_sections)

\* C23: for every base body (including an empty or single-element body) and
\* every list of sections, the body after the injection holds all original
\* elements in their original order plus all sections, the sections being one
\* contiguous block in their input order.
C23_SectionsOneBlock ==
    pc = "injected" =>
        \E p \in 0..Len(base_template[1].body) :
            dynamic_card[1].body = Splice(base_template[1].body, p, table_sections)

----------------------------------------------------------------------------
(* generate_task_sections followed by populate_placeholders, as
   build_dynamic_card_with_tasks chains them *)

\* ManyTasks and ManyTasks + 1 records with distinct titles
NumberedTasks(n) == [k \in 1..n |-> TaskRecord(None, <<"Task ">> \o Dec(k))]

ResolveTaskLists ==
    SeqsUpTo({TaskRecord(None, <<"Plan">>), TaskRecord(Label(<<"i", "n", "f", "o">>), <<"Budget">>)}, 2)
    \cup {NumberedTasks(ManyTasks), NumberedTasks(ManyTasks + 1)}

ResolveFragments == Fragments \cup {Fragment(HeaderNode, SampleRow, Some(SampleDetails))}

InitResolve ==
    /\ pc = "resolve"
    /\ task_template \in {Some(f) : f \in ResolveFragments}
    /\ tasks \in ResolveTaskLists
    /\ table_sections = <<>>
    /\ full_template = None
    /\ extracted = None
    /\ ComposeIdle
    /\ DeadlineIdle
    /\ ChannelsIdle

GenerateAndPopulate ==
    /\ pc = "resolve"
    /\ table_sections' =
          populate_placeholders([body |-> generate_task_sections(task_template, Len(tasks), tasks)],
                                [tasks |-> tasks]).body
    /\ pc' = "resolved"
    /\ UNCHANGED <<full_template, extracted, task_template, tasks, base_template,
                   dynamic_card, deadlineVars, channelVars>>

NextResolve == GenerateAndPopulate

SpecResolve == InitResolve /\ [][NextResolve]_vars

\* C24: for N records, after generate_task_sections and populate_placeholders
\* every token of the row and details templates naming index 0 is resolved in
\* the i-th copy to the same field of record i, for every i < N including
\* i >= 10, and the row and details ids of copy i use suffix i+1.
C24_CopiesResolvePerRecord ==
    pc = "resolved" =>
        \A i \in 0..(Len(tasks) - 1) :
            LET details_template == task_template[1].task_details_template
                row == table_sections[IF details_template # None THEN 2 + 2 * i ELSE 2 + i]
            IN  /\ StartsWith(row.text, tasks[i + 1].title)
                /\ row.selectAction.targetElements = <<Target(DetailsId(i + 1), "unset")>>
                /\ details_template # None =>
                      /\ table_sections[3 + 2 * i].id = DetailsId(i + 1)
                      /\ details_template[1].text = TaskToken(0, ".title") =>
                            table_sections[3 + 2 * i].text = tasks[i + 1].title

----------------------------------------------------------------------------
(* deadline_service.build_deadline_card_from_sample_exm: the Input.Toggle
   elements of the card.  update_toggles visits every Input.Toggle of the
   tree, so the card is given by the sequence of its toggles; a task is
   given by its id and its 'resolved' field. *)

DeadlineTask(task_id, resolved) == [taskId |-> task_id, resolved |-> resolved]

\* primary_task.get('resolved', True), then Python's `not`
NotResolved(task_record) ==
    IF task_record.resolved.kind = "absent" THEN FALSE
    ELSE IF task_record.resolved.kind = "bool" THEN ~task_record.resolved.b
    ELSE task_record.resolved.s = <<>>

\* update_toggles: every toggle gets the id and the value of the primary task
update_toggles(toggles, primary_task) ==
    [k \in 1..Len(toggles) |->
        [id |-> <<"toggle_", primary_task.taskId>>, value |-> NotResolved(primary_task)]]

\* the toggles of the returned card: None without a template, the template's
\* own toggles for an empty task list
build_deadline_card_toggles(template, tasks_for_user) ==
    IF template = None THEN None
    ELSE IF tasks_for_user = <<>> THEN template
    ELSE Some([toggles |-> update_toggles(template[1].toggles, tasks_for_user[1])])

ResolvedValues == {Absent, Bool(TRUE), Bool(FALSE)}

ToggleTaskLists ==
    { [k \in 1..Len(rs) |-> DeadlineTask(Digit(k), rs[k])] : rs \in SeqsUpTo(ResolvedValues, MaxTasks) }

ToggleTemplates ==
    { [toggles |-> [k \in 1..Len(vs) |-> [id |-> <<"toggle", Digit(k)>>, value |-> vs[k]]]] :
         vs \in SeqsUpTo(BOOLEAN, MaxSiblings) }

InitToggles ==
    /\ pc = "toggles"
    /\ deadline_template \in {None} \cup {Some(t) : t \in ToggleTemplates}
    /\ tasks \in ToggleTaskLists
    /\ card = None
    /\ visible = {} /\ lastActivated = NoRegion
    /\ full_template = None /\ extracted = None /\ task_template = None /\ table_sections = <<>>
    /\ ComposeIdle
    /\ ChannelsIdle

BuildToggles ==
    /\ pc = "toggles"
    /\ card' = build_deadline_card_toggles(deadline_template, tasks)
    /\ pc' = "toggles_done"
    /\ UNCHANGED <<tasks, cardVars, deadline_template, visible, lastActivated, channelVars>>

NextToggles == BuildToggles

SpecToggles == InitToggles /\ [][NextToggles]_vars

\* C27: in the card built by build_deadline_card_from_sample_exm from a
\* non-empty task list, the value of every Input.Toggle is true exactly when
\* the task whose id the toggle carries is resolved, and false otherwise,
\* also when the task has no resolved field.
C27_ToggleShowsCompletion ==
    (pc = "toggles_done" /\ card # None /\ tasks # <<>>) =>
        \A k \in 1..Len(card[1].toggles) :
            \A i \in 1..Len(tasks) :
                card[1].toggles[k].id = <<"toggle_", tasks[i].taskId>> =>
                    (card[1].toggles[k].value <=> tasks[i].resolved = Bool(TRUE))

----------------------------------------------------------------------------
(* scheduler_service.DeadlineSchedulerService._process_daily_deadline_notifications.
   A group is a value of grouped_items: the key "user_profile" is missing or
   holds the profile's email ("" for none), the key "progress_items" is
   missing or holds a list, given by its length. *)

Group(assignee_id, user_profile, items) ==
    [assignee_id |-> assignee_id, user_profile |-> user_profile, progress_items |-> items]

SchedulerGroups ==
    { Group("a1", Some([email |-> "user1@example.com"]), Some(2)),
      Group("a2", Some([email |-> "user2@example.com"]), Some(1)),
      Group("a3", Some([email |-> ""]), Some(1)),
      Group("a4", None, Some(1)),
      Group("a5", Some([email |-> "guest@example.com"]), None) }

\* grouped_items is a dict: its keys are distinct
GroupedItems ==
    { g \in SeqsUpTo(SchedulerGroups, MaxGroups) :
         \A i, j \in 1..Len(g) : i # j => g[i].assignee_id # g[j].assignee_id }

\* user_data["user_profile"] or user_data["progress_items"] raises KeyError
Malformed(user_data) == user_data.user_profile = None \/ user_data.progress_items = None

\* what send_deadline_to_user_service returns: it catches every exception
DeadlineServiceResults ==
    { Response(200, "bot_framework", "", None, None, ""),
      Response(200, "graph_api", "", None, None, ""),
      Response(200, "", "", None, None, "No deadline tasks found for user"),
      Response(404, "", "User not found", None, None, ""),
      Response(500, "", "Failed to build deadline card from template", None, None, ""),
      Response(500, "", "Both Bot Framework and Graph API approaches failed.",
               Some("send via Bot Framework failed"), Some("graph send failed"), "") }

\* the card reached the user through one of the channels
Delivered(result) == result.status = 200 /\ result.method \in {"bot_framework", "graph_api"}

\* an element of notification_results
Notification(address, item_count, status, result) ==
    [user_email |-> address, item_count |-> item_count, status |-> status, result |-> result]

InitScheduler ==
    /\ pc = "scheduler"
    /\ grouped_items \in GroupedItems
    /\ next_group = 0
    /\ notification_results = <<>>
    /\ user_email = None
    /\ group_progress_items = None
    /\ run_outcome = None
    /\ updated_card = FALSE /\ template_arg = None /\ populated_card = None
    /\ task_type_arg = None /\ icon_names = None /\ task_arg = None /\ is_completed = None
    /\ DeliveryIdle
    /\ UpdateIdle
    /\ DeadlineIdle
    /\ ComposeIdle
    /\ tasks = <<>> /\ full_template = None /\ extracted = None
    /\ task_template = None /\ table_sections = <<>>

schedulerFrame == <<tasks, cardVars, deadlineVars, deliveryVars, updateVars, updated_card,
                    template_arg, populated_card, task_type_arg, icon_names, task_arg,
                    is_completed, grouped_items>>

\* get_deadline_workflow_data returned: the run returns at once without
\* groups, else the loop starts
StartRun ==
    /\ pc = "scheduler"
    /\ IF grouped_items = <<>>
       THEN /\ run_outcome' = Some("returned")
            /\ pc' = "scheduler_done"
            /\ UNCHANGED next_group
       ELSE /\ next_group' = 1
            /\ pc' = "scheduler_loop"
            /\ UNCHANGED run_outcome
    /\ UNCHANGED <<schedulerFrame, notification_results, user_email, group_progress_items>>

\* one iteration of the for loop, with its except handler
ProcessGroup ==
    /\ pc = "scheduler_loop" /\ next_group <= Len(grouped_items)
    /\ LET user_data == grouped_items[next_group]
       IN  IF Malformed(user_data)
           THEN \* KeyError before user_email and progress_items are assigned
                IF user_email = None
                THEN \* the handler reads the unbound user_email: the exception
                     \* leaves the loop and the outer handler raises it again
                     /\ run_outcome' = Some("raised")
                     /\ pc' = "scheduler_done"
                     /\ UNCHANGED <<next_group, notification_results, user_email,
                                    group_progress_items>>
                ELSE /\ notification_results' =
                          Append(notification_results,
                                 Notification(user_email[1],
                                              IF group_progress_items = None THEN 0
                                              ELSE group_progress_items[1],
                                              "failed", None))
                     /\ next_group' = next_group + 1
                     /\ UNCHANGED <<pc, run_outcome, user_email, group_progress_items>>
           ELSE /\ user_email' = Some(user_data.user_profile[1].email)
                /\ group_progress_items' = user_data.progress_items
                /\ next_group' = next_group + 1
                /\ UNCHANGED <<pc, run_outcome>>
                /\ IF user_data.user_profile[1].email = ""
                   THEN \* continue
                        UNCHANGED notification_results
                   ELSE \E result \in DeadlineServiceResults :
                            notification_results' =
                                Append(notification_results,
                                       Notification(user_data.user_profile[1].email,
                                                    user_data.progress_items[1],
                                                    "success", Some(result)))
    /\ UNCHANGED schedulerFrame

\* the loop is exhausted: the summary is logged
Summary ==
    /\ pc = "scheduler_loop" /\ next_group > Len(grouped_items)
    /\ run_outcome' = Some("summary")
    /\ pc' = "scheduler_done"
    /\ UNCHANGED <<schedulerFrame, next_group, notification_results, user_email,
                   group_progress_items>>

NextScheduler ==
    \/ StartRun
    \/ ProcessGroup
    \/ Summary

SpecScheduler == InitScheduler /\ [][NextScheduler]_vars

\* C29: a user is recorded in notification_results with status 'success'
\* only if the deadline card was delivered to that user; a user not found, a
\* card that cannot be built and a failure of every channel are not recorded
\* as 'success'.
C29_SuccessOnlyIfDelivered ==
    \A k \in 1..Len(notification_results) :
        notification_results[k].status = "success" =>
            Delivered(notification_results[k].result[1])

============================================================================
